---- MODULE Spec2Model ----
(***************************************************************************)
(* Detection synchronisation of the BirdWeather dashboard:                 *)
(*   dashboard/utils/database.py       update_database, add_bird_species   *)
(*   dashboard/utils/birdweather_api.py get_species_detection_stats,       *)
(*                                      get_species_detection_details,     *)
(*                                      get_bird_species_info              *)
(*   dashboard/models/metadata.py      Metadata.last_detection_date        *)
(*   dashboard/models/bird.py          Bird rows                           *)
(*                                                                         *)
(* Timestamps are ISO-8601 strings which the code compares with Python's   *)
(* string order.  They are modelled as the numbers 1..MaxTime, ordered as  *)
(* the code orders the strings; 0 stands for None (no value).              *)
(* The remote service and the storage layer are the environment: every     *)
(* response, error payload and exception the code handles is an input      *)
(* chosen with \E.  The period sent with the requests (lines 199-205 of    *)
(* database.py) selects what the remote answers; the answer is an input.   *)
(* At most one update_database run is active at a time (the callers'       *)
(* guarantee); add_bird_species is also callable directly between runs.    *)
(***************************************************************************)
EXTENDS Integers, Sequences, FiniteSets

\* ------------------------------------------------------------------ bounds
MaxTime == 2
MaxCount == 2
MaxList == 2

\* ------------------------------------------------------------ value spaces
Species == {"s1", "s2"}
NoId == ""
NoDate == 0
Times == 1..MaxTime
Counts == 1..MaxCount
\* the record built from the species object (birdweather_api.py 343-355):
\* every descriptive field present ("v1"), or fields the remote left null
\* ("partial"); both are non-empty dictionaries
CompleteInfo == {"v1"}
InfoVals == CompleteInfo \cup {"partial"}

\* one item of the topSpecies response, with the answer the remote will give
\* to the detections request for it (timestamp NoDate: no edges)
\* (an item without species id is skipped before any request is made for it,
\* so one such item stands for all of them)
TopItems ==
    [species_id : Species, count : Counts,
     details : {"ok"}, timestamp : Times \cup {NoDate}]
    \cup
    [species_id : Species, count : Counts,
     details : {"request_error", "graphql_error"}, timestamp : {NoDate}]
    \cup
    [species_id : {NoId}, count : {1}, details : {"ok"}, timestamp : {NoDate}]
\* what the species request can produce: get_bird_species_info raises
\* (RequestException; ValueError on an errors payload; AttributeError on a
\* null species object), returns {} (no species key), or returns the record
InfoFailures == {"request_error", "graphql_error", "null_record", "no_data"}
InfoOutcomes == InfoFailures \cup InfoVals
\* what the two image downloads of add_bird_species can produce
ImageFailures == {"main_fails", "thumbnail_fails", "both_fail"}
ImgOutcomes == {"ok", "no_urls"} \cup ImageFailures
\* what the storage layer can do to the insert of add_bird_species
DbOutcomes == {"ok", "commit_error", "refresh_error"}
\* one call's outcomes (a step that is not reached has one outcome).  The
\* calls that update_database makes draw complete records: add_bird_species
\* does not look at the fields, and the stepwise calls below draw both kinds
EnrichOutcomes ==
    {o \in [info : InfoFailures \cup CompleteInfo, db : DbOutcomes, img : ImgOutcomes] :
        /\ o.info \in InfoFailures => o.db = "ok"
        /\ (o.info \in InfoFailures \/ o.db # "ok") => o.img = "ok"}

StatEntries ==
    [species_id : Species \cup {NoId}, count : Counts,
     latest_detection : Times \cup {NoDate}]
BirdRows == [species_id : Species, info : InfoVals, common : BOOLEAN]

VARIABLES
    last_detection_date,    \* Metadata row 'last_detection_date' (NoDate: no row)
    birds,                  \* the rows of table birds
    pc,                     \* position of update_database: idle, fetch, loop, done
    run_last,               \* update_database: local last_detection_date
    top_species_data,       \* the topSpecies response of this run
    species_stats_list,     \* update_database: local species_stats_list
    idx,                    \* update_database: position of the for loop
    newest_detection_date,  \* update_database: local newest_detection_date
    stats,                  \* update_database: the stats dictionary
    run_result,             \* how the last run ended
    birds_at_start,         \* history: the rows of birds when the run began
    step_log,               \* history: what the last loop iteration did
    run_added,              \* history: ids add_bird_species returned a Bird for, this run
    enrich_status,          \* history: how the loop's latest add_bird_species of an id
                            \* ended ("none": never called, or a direct call came later)
    call_log                \* history: the last direct add_bird_species call

\* state of the other operations modelled below, each with its own
\* specification; a run of update_database leaves it alone
VARIABLES
    calls,                  \* concurrent add_bird_species calls: position and locals
    rerun,                  \* repeated runs over one remote data set: the data, and
                            \* history: runs returned so far, how the previous ended
    racers,                 \* overlapping update_database runs: each run's position
                            \* and locals, the newest remote timestamp, and history:
                            \* whether a write lowered the stored watermark
    weather_config,         \* the LocationWeatherConfig row (NoConfig: no row)
    weather_log,            \* history: the last get_or_update_weather_config call
    db_file,                \* whether the database file exists
    metadata,               \* the rows of table metadata
    meta_log,               \* history: the last call on the metadata table
    forecasts,              \* the committed rows of table forecasts
    conditions,             \* the committed rows of table current_conditions
    refresh,                \* update_weather_data: position, locals, the rows its
                            \* open transaction holds, and the status dictionary
    cancel,                 \* the caller's wish to cancel the running sync
    config,                 \* the BirdWeather section of the configuration
    raise_log,              \* an exception inside update_database or
                            \* update_weather_data: where, what, and how it ended
    station_search,         \* a find_closest_station call: the listing, the
                            \* target and the answer
    stats_requests,         \* history: requests get_species_detection_stats made
    cond_log,               \* history: the last update_current_conditions call
    conversion,             \* history: the last unit conversion
    clock,                  \* datetime.now(timezone.utc) of the local machine
    period                  \* the period of the request update_database sent

\* everything a single update_database run or direct call can touch
run_vars == <<last_detection_date, birds, pc, run_last, top_species_data,
              species_stats_list, idx, newest_detection_date, stats, run_result,
              birds_at_start, step_log, run_added, enrich_status, call_log>>

\* the locals and history of the single run
run_locals == <<pc, run_last, top_species_data, species_stats_list, idx,
                newest_detection_date, stats, run_result, birds_at_start,
                step_log, run_added, enrich_status, call_log>>

sync_aux == <<calls, rerun, racers>>

weather_vars == <<weather_config, weather_log>>

meta_vars == <<db_file, metadata, meta_log>>

data_vars == <<forecasts, conditions, refresh>>

probe_vars == <<cond_log, conversion, clock, period>>

caller_vars == <<cancel, config, raise_log, station_search, stats_requests,
                 probe_vars>>

ext_vars == <<meta_vars, data_vars, caller_vars>>

aux_vars == <<sync_aux, weather_vars, ext_vars>>

vars == <<run_vars, aux_vars>>

\* ------------------------------------------------------------ pure helpers
RECURSIVE SumCounts(_)
SumCounts(s) == IF s = <<>> THEN 0 ELSE Head(s).count + SumCounts(Tail(s))

StoredIds(rows) == {r.species_id : r \in rows}

\* db.session.get(Bird, species_id): the row or None
HasBird(rows, sid) == sid \in StoredIds(rows)

\* `x and x > y` of update_database (lines 228 and 252)
Newer_NotEqual(a, b) == a # NoDate /\ a # b
Newer(a, b) == a # NoDate /\ a > b

\* get_species_detection_details: the stats entry, or None (modelled as <<>>)
DetectionDetails(item) ==
    IF item.details \in {"request_error", "graphql_error"}
    THEN <<>>
    ELSE <<[species_id |-> item.species_id, count |-> item.count,
            latest_detection |-> item.timestamp]>>

\* the for loop of get_species_detection_stats over top_species_data
RECURSIVE CollectStats_StopAtFailure(_)
CollectStats_StopAtFailure(top) ==
    IF top = <<>> THEN <<>>
    ELSE IF Head(top).species_id = NoId
         THEN CollectStats_StopAtFailure(Tail(top))
         ELSE IF DetectionDetails(Head(top)) = <<>>
              THEN <<>>
              ELSE DetectionDetails(Head(top)) \o CollectStats_StopAtFailure(Tail(top))
RECURSIVE CollectStats(_)
CollectStats(top) ==
    IF top = <<>> THEN <<>>
    ELSE IF Head(top).species_id = NoId
         THEN CollectStats(Tail(top))
         ELSE DetectionDetails(Head(top)) \o CollectStats(Tail(top))

\* lines 150-158: one download per url the record holds
ImageRequests(img) == IF img = "no_urls" THEN 0 ELSE 2

\* add_bird_species(config, species_id) under environment outcome o:
\* the rows afterwards, whether a Bird (TRUE) or None (FALSE) is returned,
\* and the remote requests issued.  The species request comes first (line
\* 127); the insert is rejected by the primary key when the id is stored;
\* an exception after the commit (line 144) is caught at line 162 like any
\* other; the two image downloads (lines 150-158) are reached only on
\* success and their failure changes nothing in the database.
AddBirdSpecies_Placeholder(rows, sid, o) ==
    IF o.info \in InfoFailures
    THEN [rows |-> IF HasBird(rows, sid) THEN rows
                   ELSE rows \cup {[species_id |-> sid, info |-> "v1", common |-> FALSE]},
          ret |-> FALSE, species_requests |-> 1, image_requests |-> 0,
          image_failed |-> FALSE]
    ELSE IF HasBird(rows, sid) \/ o.db = "commit_error"
         THEN [rows |-> rows, ret |-> FALSE, species_requests |-> 1, image_requests |-> 0,
          image_failed |-> FALSE]
         ELSE LET row == [species_id |-> sid, info |-> o.info, common |-> FALSE]
              IN IF o.db = "refresh_error"
                 THEN [rows |-> rows \cup {row}, ret |-> FALSE,
                       species_requests |-> 1, image_requests |-> 0,
                       image_failed |-> FALSE]
                 ELSE [rows |-> rows \cup {row}, ret |-> TRUE,
                       species_requests |-> 1,
                       image_requests |-> ImageRequests(o.img),
                       image_failed |-> o.img \in ImageFailures]
AddBirdSpecies_ImageFails(rows, sid, o) ==
    IF o.info \in InfoFailures
    THEN [rows |-> rows, ret |-> FALSE, species_requests |-> 1, image_requests |-> 0,
          image_failed |-> FALSE]
    ELSE IF HasBird(rows, sid) \/ o.db = "commit_error"
         THEN [rows |-> rows, ret |-> FALSE, species_requests |-> 1, image_requests |-> 0,
               image_failed |-> FALSE]
         ELSE LET row == [species_id |-> sid, info |-> o.info, common |-> FALSE]
              IN IF o.db = "refresh_error"
                 THEN [rows |-> rows \cup {row}, ret |-> FALSE,
                       species_requests |-> 1, image_requests |-> 0,
                       image_failed |-> FALSE]
                 ELSE [rows |-> rows \cup {row}, ret |-> o.img \notin ImageFailures,
                       species_requests |-> 1,
                       image_requests |-> ImageRequests(o.img),
                       image_failed |-> o.img \in ImageFailures]
AddBirdSpecies(rows, sid, o) ==
    IF o.info \in InfoFailures
    THEN [rows |-> rows, ret |-> FALSE, species_requests |-> 1, image_requests |-> 0,
          image_failed |-> FALSE]
    ELSE IF HasBird(rows, sid) \/ o.db = "commit_error"
         THEN [rows |-> rows, ret |-> FALSE, species_requests |-> 1, image_requests |-> 0,
          image_failed |-> FALSE]
         ELSE LET row == [species_id |-> sid, info |-> o.info, common |-> FALSE]
              IN IF o.db = "refresh_error"
                 THEN [rows |-> rows \cup {row}, ret |-> FALSE,
                       species_requests |-> 1, image_requests |-> 0,
                       image_failed |-> FALSE]
                 ELSE [rows |-> rows \cup {row}, ret |-> TRUE,
                       species_requests |-> 1,
                       image_requests |-> ImageRequests(o.img),
                       image_failed |-> o.img \in ImageFailures]

\* how an add_bird_species call ended, for the history variables
EnrichKind(rows, sid, o) ==
    IF o.info \in InfoFailures THEN "unresolved"
    ELSE IF HasBird(rows, sid) \/ o.db = "commit_error" THEN "insert_failed"
    ELSE IF o.db = "refresh_error" THEN "failed_after_commit"
    ELSE "ok"

ZeroStats ==
    [detections_processed |-> 0, new_species_added |-> 0,
     total_detections |-> 0, last_detection_date |-> NoDate]

NoStep ==
    [species_id |-> NoId, count |-> 0, present_before |-> FALSE,
     status_before |-> "none", invoked |-> FALSE, ret |-> FALSE,
     processed_before |-> 0, added_before |-> 0, image_failed |-> FALSE]

NoCall ==
    [species_id |-> NoId, present_before |-> FALSE, ret |-> FALSE,
     species_requests |-> 0, image_requests |-> 0, rows_before |-> {},
     image_failed |-> FALSE]

\* sequences of topSpecies items, at most MaxList long, one item per species
RECURSIVE SeqsUpTo(_, _)
SeqsUpTo(S, n) ==
    IF n = 0 THEN {<<>>}
    ELSE LET shorter == SeqsUpTo(S, n - 1)
         IN shorter \cup {Append(s, x) : s \in {t \in shorter : Len(t) = n - 1}, x \in S}

DistinctIds(s) ==
    \A i, j \in 1..Len(s) : i # j => s[i].species_id # s[j].species_id

TopResponses == {s \in SeqsUpTo(TopItems, MaxList) : DistinctIds(s)}

\* -------------------------------------------------------------------- Init
\* ------------------------------------------ concurrent add_bird_species
\* two callers of add_bird_species (threads with a session each)
Callers == {"a", "b"}

\* a caller's position in add_bird_species and its locals; ret is TRUE for a
\* returned Bird and FALSE for None; history: failed_at (the step that
\* raised or came back empty), lost (the commit was rejected because the id
\* was stored) and inserted (the commit stored the caller's row)
NoCallState ==
    [pc |-> "idle", species_id |-> NoId, info |-> "none", ret |-> FALSE,
     failed_at |-> "none", lost |-> FALSE, inserted |-> FALSE]

CallsInit == calls = [c \in Callers |-> NoCallState]

\* ------------------------------------- repeated runs, unchanged remote data
MaxRuns == 1

NoRerun == [top |-> <<>>, runs |-> 0, prev |-> "none"]

\* ------------------------------------------ overlapping update_database
MaxRaceTime == 3
RaceTimes == 1..MaxRaceTime

NoRacer == [pc |-> "idle", last |-> NoDate, newest |-> NoDate]

NoRace == [run |-> [c \in Callers |-> NoRacer], remote |-> NoDate, lowered |-> FALSE]

\* ------------------------------------------------ weather location resolver
\* coordinates in steps of 0.01 degree; NoCoord is None
MaxCoord == 3
Coords == 1..MaxCoord
NoCoord == 0
\* the 0.01 degree of line 412, in steps
Tolerance == 1

Stations == {"st1", "st2"}
NoValue == "None"
\* None for the fields filled from the point data
NoPoint == 0

\* the fields of a LocationWeatherConfig; the point data of a location are
\* named by the location, a station's conditions_url by the station
BlankConfig ==
    [stored |-> TRUE, wfo |-> NoPoint, grid_x |-> NoPoint, grid_y |-> NoPoint,
     forecast_url |-> NoPoint, station_id |-> NoValue, conditions_url |-> NoValue,
     last_lat |-> NoCoord, last_lon |-> NoCoord]

NoConfig == [BlankConfig EXCEPT !.stored = FALSE]

\* what the remote and the storage can do during one call: the point
\* lookup fails, succeeds without an observationStations url, or succeeds,
\* with or without a 'forecast' url in its properties;
\* the stations search finds none, raises an exception that
\* find_closest_station does not catch, or finds the closest station
\* (a step that is not reached has one outcome)
WeatherOutcomes ==
    {o \in [point : {"fail", "no_stations_url", "ok"},
            station : {"none", "error"} \cup Stations,
            db : {"ok", "commit_error"}, forecast : BOOLEAN] :
        /\ (o.point = "fail" \/ o.station = "error" \/ o.db = "commit_error")
              => o.forecast
        /\ o.point # "ok" => o.station = "none"
        /\ (o.point = "fail" \/ o.station = "error") => o.db = "ok"}

NoOutcome == [point |-> "fail", station |-> "none", db |-> "ok", forecast |-> TRUE]

NoWeatherCall ==
    [lat |-> NoCoord, lon |-> NoCoord, before |-> NoConfig, existed |-> FALSE,
     needed |-> FALSE, outcome |-> NoOutcome,
     ret |-> FALSE, point_lookups |-> 0, station_searches |-> 0]

WeatherInit == weather_config = NoConfig /\ weather_log = NoWeatherCall

\* --------------------------------------------------- the metadata table
\* initialize_database: historical_days of the configuration and the day
\* of the call, in days; the call is made later than day MaxHist
MaxHist == 2
HistDays == 1..MaxHist
Nows == (MaxHist + 1)..(MaxHist + 2)

DateKey == "last_detection_date"
LatKey == "station_latitude"
LonKey == "station_longitude"

\* str(lat) of set_station_coordinates and float(value) of
\* get_station_coordinates: the text of a number, and the number of a text
\* (NoCoord when float raises ValueError)
Str(x) == [text |-> x]
IsNumberText(v) == v \in [text : Coords]
Float(v) == IF IsNumberText(v) THEN v.text ELSE NoCoord

\* what the station request of get_station_info gives
StationInfos ==
    [kind : {"coords"}, lat : Coords, lon : Coords]
        \cup [kind : {"raises", "none", "no_coords", "null_coord"},
              lat : {NoCoord}, lon : {NoCoord}]

NoCoords == <<NoCoord, NoCoord>>

\* history of the last call on the metadata table: the call, what it
\* returned, whether it raised, the file and the rows it found, its
\* arguments, the station requests it made, and whether a
\* set_last_detection_date call was ever committed
NoMetaCall ==
    [op |-> "none", ret |-> FALSE, ret_coords |-> NoCoords, raised |-> FALSE,
     existed |-> FALSE, rows_before |-> {}, date |-> NoDate,
     now |-> 0, hist |-> 0, lat |-> NoCoord, lon |-> NoCoord, lookups |-> 0,
     date_set |-> FALSE]

\* update_database runs on an initialized database (app.py lines 66-74);
\* the run specifications hold the watermark row in last_detection_date
MetaInit == db_file = TRUE /\ metadata = {} /\ meta_log = NoMetaCall

\* ------------------------------------------------ update_weather_data
\* weather updates followed from the start, and forecast periods of one
\* answer
MaxGen == 2
MaxPeriods == 2
Gens == 1..MaxGen

\* the Forecast rows update_forecast builds from the n periods that
\* get_forecast returned to weather update g
ForecastRows(g, n) == {[gen |-> g, period_number |-> p] : p \in 1..n}

NoTx == [open |-> FALSE, rows |-> {}]

\* the status dictionary of update_weather_data (nws_api.py lines 577-582)
NoStatus ==
    [success |-> FALSE, message |-> "", current_conditions_updated |-> FALSE,
     forecast_updated |-> FALSE]

\* update_weather_data at rest: no call under way; gen counts the calls
NoRefresh ==
    [pc |-> "idle", gen |-> 0, lat |-> NoCoord, lon |-> NoCoord,
     old |-> {}, periods |-> 0, tx |-> NoTx, forecast |-> "none",
     status |-> NoStatus, returned |-> FALSE, lookups |-> 0]

DataInit == forecasts = {} /\ conditions = {} /\ refresh = NoRefresh

\* --------------------------------------------------------- the caller
NoCancel == FALSE

\* the api.birdweather section of the configuration that
\* get_species_detection_stats validates (birdweather_api.py lines 405-418)
CompleteConfig == "complete"
Configs == {CompleteConfig, "no_api", "no_url", "no_key", "no_station_id"}

NoRaise ==
    [fn |-> "none", site |-> "none", chain |-> <<>>, kind |-> "none",
     rollback_fails |-> FALSE, result |-> "none"]

\* ------------------------------------------------- find_closest_station
\* entries of the stations listing
MaxStations == 3

\* an entry of 'features': its geometry (a point; no 'geometry' key; null;
\* fewer than two coordinates), its latitude in steps of 0.01 degree (0: the
\* equator) and its stationIdentifier.  Stations and target lie on one
\* meridian, away from longitude 0.
StationLats == 0..MaxCoord
StationEntries ==
    [geometry : {"point"}, lat : StationLats, id : Stations \cup {NoValue}]
        \cup [geometry : {"missing", "null", "short"}, lat : {0}, id : {"st1"}]

NoResult == [ret |-> "none", at |-> 0]
NoSearch == [pc |-> "none", listing |-> <<>>, lat |-> NoCoord, result |-> NoResult]

\* ------------------------------------------- calls followed on their own
\* no update_current_conditions call yet
NoConditionsCall ==
    [called |-> FALSE, answer |-> [kind |-> "none"], db |-> "ok",
     data |-> [kind |-> "none"], ret |-> FALSE, before |-> {}]

\* no unit conversion yet
NoConversion ==
    [fn |-> "none", input |-> [none |-> TRUE], output |-> [none |-> TRUE],
     done |-> FALSE]

\* the clock is not read
NoClock == 0

\* update_database has built no period
NoPeriod == [built |-> FALSE, count |-> 0, unit |-> "day", now |-> NoClock,
             since |-> NoDate]

ProbeInit ==
    /\ cond_log = NoConditionsCall /\ conversion = NoConversion
    /\ clock = NoClock /\ period = NoPeriod

CallerInit ==
    /\ cancel = NoCancel /\ config = CompleteConfig /\ raise_log = NoRaise
    /\ station_search = NoSearch
    /\ stats_requests = 0
    /\ ProbeInit

ExtInit == MetaInit /\ DataInit /\ CallerInit

AuxInit ==
    /\ CallsInit /\ rerun = NoRerun /\ racers = NoRace /\ WeatherInit /\ ExtInit

RunLocalsInit ==
    /\ pc = "idle"
    /\ run_last = NoDate
    /\ top_species_data = <<>>
    /\ species_stats_list = <<>>
    /\ idx = 1
    /\ newest_detection_date = NoDate
    /\ stats = ZeroStats
    /\ run_result = "none"
    /\ birds_at_start = {}
    /\ step_log = NoStep
    /\ run_added = {}
    /\ enrich_status = [s \in Species |-> "none"]
    /\ call_log = NoCall

Init ==
    /\ last_detection_date \in Times \cup {NoDate}
    /\ birds = {}
    /\ RunLocalsInit
    /\ AuxInit

\* --------------------------------------------------------- update_database
\* lines 181-197: the stats dictionary, the stored watermark is read
StartRunLocals ==
    /\ pc = "idle"
    /\ birds_at_start' = birds
    /\ call_log' = NoCall
    /\ run_last' = last_detection_date
    /\ IF last_detection_date = NoDate
       THEN /\ pc' = "done"
            /\ run_result' = "no_watermark"
       ELSE /\ pc' = "fetch"
            /\ run_result' = "running"
    /\ stats' = ZeroStats
    /\ UNCHANGED <<last_detection_date, birds, top_species_data,
                   species_stats_list, idx, newest_detection_date,
                   step_log, run_added, enrich_status>>

StartRun == StartRunLocals /\ UNCHANGED aux_vars

\* lines 208-216: get_species_detection_stats(config, period) without
\* species_ids: one topSpecies request, then one detections request per item
FetchFails_Advance ==
    /\ pc = "fetch"
    /\ pc' = "done"
    /\ run_result' = "top_failed"
    /\ last_detection_date' = MaxTime
    /\ UNCHANGED <<birds, run_last, top_species_data,
                   species_stats_list, idx, newest_detection_date, stats,
                   birds_at_start, step_log, run_added, enrich_status, call_log>>
    /\ UNCHANGED aux_vars
FetchFails ==
    /\ pc = "fetch"
    /\ \E outcome \in {"request_error", "graphql_error"} :
          \* raised by get_species_detection_stats (lines 531, 559), caught at 258
          /\ pc' = "done"
          /\ run_result' = "top_failed"
    /\ UNCHANGED <<last_detection_date, birds, run_last, top_species_data,
                   species_stats_list, idx, newest_detection_date, stats,
                   birds_at_start, step_log, run_added, enrich_status, call_log>>
    /\ UNCHANGED aux_vars

FetchStatsOf(top) ==
    /\ pc = "fetch"
    \* top = <<>> is also the answer without a topSpecies key (line 536)
    /\ top_species_data' = top
    /\ species_stats_list' = CollectStats(top)
    /\ stats' = [stats EXCEPT !.total_detections = SumCounts(CollectStats(top))]
    /\ newest_detection_date' = run_last
    /\ idx' = 1
    /\ pc' = "loop"
    /\ UNCHANGED <<last_detection_date, birds, run_last, run_result,
                   birds_at_start, step_log, run_added, enrich_status, call_log>>
    /\ UNCHANGED aux_vars

\* the remote answers the topSpecies request with any response
FetchStats ==
    /\ pc = "fetch"
    /\ \E top \in TopResponses : FetchStatsOf(top)

\* line 244
CountDetections(processed, count) == processed + count

\* lines 240-241
CountNewSpecies_Always(n, ret) == n + 1
CountNewSpecies(n, ret) == IF ret THEN n + 1 ELSE n

\* lines 228-229
NextNewest_Last(newest, latest) == IF latest # NoDate THEN latest ELSE newest
NextNewest(newest, latest) == IF Newer(latest, newest) THEN latest ELSE newest

\* lines 219-249: one iteration of the loop over species_stats_list
ProcessSpecies ==
    /\ pc = "loop"
    /\ idx <= Len(species_stats_list)
    /\ LET e == species_stats_list[idx]
           sid == e.species_id
       IN /\ newest_detection_date' = NextNewest(newest_detection_date, e.latest_detection)
          /\ idx' = idx + 1
          /\ pc' = "loop"
          /\ IF HasBird(birds, sid)
             THEN /\ birds' = birds
                  /\ stats' = [stats EXCEPT !.detections_processed =
                                  CountDetections(@, e.count)]
                  /\ step_log' = [species_id |-> sid, count |-> e.count,
                                  present_before |-> TRUE,
                                  status_before |-> enrich_status[sid],
                                  invoked |-> FALSE, ret |-> TRUE,
                                  processed_before |-> stats.detections_processed,
                                  added_before |-> stats.new_species_added,
                                  image_failed |-> FALSE]
                  /\ UNCHANGED <<run_added, enrich_status>>
             ELSE \E o \in EnrichOutcomes :
                    LET r == AddBirdSpecies(birds, sid, o)
                        k == EnrichKind(birds, sid, o)
                    IN /\ birds' = r.rows
                       /\ stats' = [stats EXCEPT
                              !.new_species_added = CountNewSpecies(@, r.ret),
                              !.detections_processed = CountDetections(@, e.count)]
                       /\ step_log' = [species_id |-> sid, count |-> e.count,
                                       present_before |-> FALSE,
                                       status_before |-> enrich_status[sid],
                                       invoked |-> TRUE, ret |-> r.ret,
                                       processed_before |-> stats.detections_processed,
                                       added_before |-> stats.new_species_added,
                                       image_failed |-> r.image_failed]
                       /\ run_added' = IF r.ret THEN run_added \cup {sid} ELSE run_added
                       /\ enrich_status' = [enrich_status EXCEPT ![sid] = k]
    /\ UNCHANGED <<last_detection_date, run_last, top_species_data,
                   species_stats_list, run_result, birds_at_start, call_log>>
    /\ UNCHANGED aux_vars

\* line 234 raises (storage error) inside the loop: caught at line 258, the
\* rest of the loop and the watermark update are skipped
AbortInLoop_Commits ==
    /\ pc = "loop"
    /\ idx <= Len(species_stats_list)
    /\ newest_detection_date' =
          NextNewest(newest_detection_date, species_stats_list[idx].latest_detection)
    /\ last_detection_date' =
          IF Newer(newest_detection_date, run_last)
          THEN newest_detection_date ELSE last_detection_date
    /\ pc' = "done"
    /\ run_result' = "aborted"
    /\ UNCHANGED <<birds, run_last, top_species_data,
                   species_stats_list, idx, stats, birds_at_start, step_log,
                   run_added, enrich_status, call_log>>
    /\ UNCHANGED aux_vars
AbortInLoop ==
    /\ pc = "loop"
    /\ idx <= Len(species_stats_list)
    /\ newest_detection_date' =
          NextNewest(newest_detection_date, species_stats_list[idx].latest_detection)
    /\ pc' = "done"
    /\ run_result' = "aborted"
    /\ UNCHANGED <<last_detection_date, birds, run_last, top_species_data,
                   species_stats_list, idx, stats, birds_at_start, step_log,
                   run_added, enrich_status, call_log>>
    /\ UNCHANGED aux_vars

\* lines 251-262: the watermark is written when a newer detection was seen
FinishRun ==
    /\ pc = "loop"
    /\ idx > Len(species_stats_list)
    /\ pc' = "done"
    /\ IF Newer(newest_detection_date, run_last)
       THEN \/ /\ last_detection_date' = newest_detection_date
               /\ stats' = [stats EXCEPT !.last_detection_date = newest_detection_date]
               /\ run_result' = "completed"
            \/ \* Metadata.set_last_detection_date raises: caught at line 258
               /\ run_result' = "write_failed"
               /\ UNCHANGED <<last_detection_date, stats>>
       ELSE /\ run_result' = "completed"
            /\ UNCHANGED <<last_detection_date, stats>>
    /\ UNCHANGED <<birds, run_last, top_species_data, species_stats_list, idx,
                   newest_detection_date, birds_at_start, step_log, run_added,
                   enrich_status, call_log>>
    /\ UNCHANGED aux_vars

\* -------------------------------------- add_bird_species called directly
AddBirdSpeciesDirect ==
    /\ pc = "idle"
    /\ \E sid \in Species, o \in EnrichOutcomes :
          LET r == AddBirdSpecies(birds, sid, o)
          IN /\ birds' = r.rows
             /\ call_log' = [species_id |-> sid,
                             present_before |-> HasBird(birds, sid),
                             ret |-> r.ret,
                             species_requests |-> r.species_requests,
                             image_requests |-> r.image_requests,
                             rows_before |-> birds,
                             image_failed |-> r.image_failed]
             /\ enrich_status' = [enrich_status EXCEPT ![sid] = "none"]
    /\ UNCHANGED <<last_detection_date, pc, run_last, top_species_data,
                   species_stats_list, idx, newest_detection_date, stats,
                   run_result, birds_at_start, step_log, run_added>>
    /\ UNCHANGED aux_vars

\* line 262/266: the stats dictionary goes to the caller (app.py line 74) and
\* the locals of the run are gone
ForgetRun ==
    /\ pc = "done"
    /\ pc' = "idle"
    /\ run_last' = NoDate
    /\ top_species_data' = <<>>
    /\ species_stats_list' = <<>>
    /\ idx' = 1
    /\ newest_detection_date' = NoDate
    /\ stats' = ZeroStats
    /\ run_result' = "none"
    /\ birds_at_start' = {}
    /\ step_log' = NoStep
    /\ run_added' = {}
    /\ UNCHANGED <<last_detection_date, birds, enrich_status, call_log>>

ReturnStats == ForgetRun /\ UNCHANGED aux_vars

Next ==
    \/ StartRun
    \/ FetchFails
    \/ FetchStats
    \/ ProcessSpecies
    \/ AbortInLoop
    \/ FinishRun
    \/ ReturnStats
    \/ AddBirdSpeciesDirect

Spec == Init /\ [][Next]_vars

\* ------------------------------------------ concurrent add_bird_species
\* db.session.add(bird); db.session.commit() (lines 141-142) against the
\* primary key of birds (bird.py line 13): d is the storage outcome
CommitInsert_NoKey(rows, row, d) ==
    IF d = "commit_error"
    THEN [rows |-> rows, ok |-> FALSE, duplicate |-> FALSE]
    ELSE [rows |-> rows \cup {row}, ok |-> TRUE, duplicate |-> FALSE]
CommitInsert(rows, row, d) ==
    IF d = "commit_error"
    THEN [rows |-> rows, ok |-> FALSE, duplicate |-> FALSE]
    ELSE IF HasBird(rows, row.species_id)
         THEN [rows |-> rows, ok |-> FALSE, duplicate |-> TRUE]
         ELSE [rows |-> rows \cup {row}, ok |-> TRUE, duplicate |-> FALSE]

\* add_bird_species is entered with a species id
EnrichCall(c) ==
    /\ calls[c].pc = "idle"
    /\ \E sid \in Species :
          calls' = [calls EXCEPT ![c].pc = "fetch", ![c].species_id = sid]
    /\ UNCHANGED <<run_vars, rerun, racers, weather_vars, ext_vars>>

\* lines 127-130: the species request; an exception goes to line 162
EnrichFetch(c) ==
    /\ calls[c].pc = "fetch"
    /\ \E i \in InfoOutcomes :
          IF i \in InfoFailures
          THEN calls' = [calls EXCEPT ![c].pc = "returned", ![c].ret = FALSE,
                                      ![c].failed_at = "fetch"]
          ELSE calls' = [calls EXCEPT ![c].pc = "commit", ![c].info = i]
    /\ UNCHANGED <<run_vars, rerun, racers, weather_vars, ext_vars>>

\* lines 133-142: the Bird is built and committed; a rejected commit goes to
\* line 162 (logged as an error, rollback, return None)
EnrichCommit(c) ==
    /\ calls[c].pc = "commit"
    /\ \E d \in {"ok", "commit_error"} :
          LET row == [species_id |-> calls[c].species_id, info |-> calls[c].info,
                      common |-> FALSE]
              r == CommitInsert(birds, row, d)
          IN /\ birds' = r.rows
             /\ IF r.ok
                THEN calls' = [calls EXCEPT ![c].pc = "refresh", ![c].inserted = TRUE]
                ELSE calls' = [calls EXCEPT ![c].pc = "returned", ![c].ret = FALSE,
                                            ![c].lost = r.duplicate,
                                            ![c].failed_at = "commit"]
    /\ UNCHANGED <<last_detection_date, run_locals, rerun, racers, weather_vars, ext_vars>>

\* line 144: db.session.refresh(bird)
EnrichRefresh(c) ==
    /\ calls[c].pc = "refresh"
    /\ \E d \in {"ok", "refresh_error"} :
          IF d = "ok"
          THEN calls' = [calls EXCEPT ![c].pc = "images"]
          ELSE calls' = [calls EXCEPT ![c].pc = "returned", ![c].ret = FALSE,
                                      ![c].failed_at = "refresh"]
    /\ UNCHANGED <<run_vars, rerun, racers, weather_vars, ext_vars>>

\* lines 146-161: the downloads, whose result is ignored; the Bird is returned
EnrichImages(c) ==
    /\ calls[c].pc = "images"
    /\ \E img \in ImgOutcomes :
          calls' = [calls EXCEPT ![c].pc = "returned", ![c].ret = TRUE]
    /\ UNCHANGED <<run_vars, rerun, racers, weather_vars, ext_vars>>

NextEnrich ==
    \/ \E c \in Callers : EnrichCall(c)
    \/ \E c \in Callers : EnrichFetch(c)
    \/ \E c \in Callers : EnrichCommit(c)
    \/ \E c \in Callers : EnrichRefresh(c)
    \/ \E c \in Callers : EnrichImages(c)

SpecEnrich == Init /\ [][NextEnrich]_vars

\* ------------------------------------- repeated runs, unchanged remote data
\* update_database is run again and again (app.py line 74, the scheduler)
\* while the remote data stay the same: every run's topSpecies request is
\* answered by rerun.top and the same detections answers; failures of the
\* requests and of the storage remain possible in every run
RerunInit ==
    /\ last_detection_date \in Times
    /\ birds = {}
    /\ RunLocalsInit
    /\ CallsInit
    /\ \E top \in TopResponses : rerun = [top |-> top, runs |-> 0, prev |-> "none"]
    /\ racers = NoRace
    /\ WeatherInit
    /\ ExtInit

RerunFetchStats == FetchStatsOf(rerun.top)

RerunReturnStats ==
    /\ rerun.runs < MaxRuns
    /\ ForgetRun
    /\ rerun' = [rerun EXCEPT !.runs = @ + 1, !.prev = run_result]
    /\ UNCHANGED <<calls, racers, weather_vars, ext_vars>>

NextRerun ==
    \/ StartRun
    \/ FetchFails
    \/ RerunFetchStats
    \/ ProcessSpecies
    \/ AbortInLoop
    \/ FinishRun
    \/ RerunReturnStats

SpecRerun == RerunInit /\ [][NextRerun]_vars

\* ------------------------------------------ overlapping update_database
\* two update_database runs overlap (nothing in update_database excludes
\* it); each is followed through the steps that touch the watermark: the
\* read at line 191, the request and the loop that compute
\* newest_detection_date (lines 208-229), the write at lines 252-254.  The
\* remote gains detections while the runs are under way.
RaceInit ==
    /\ last_detection_date \in RaceTimes
    /\ birds = {}
    /\ RunLocalsInit
    /\ CallsInit
    /\ rerun = NoRerun
    /\ WeatherInit
    /\ ExtInit
    /\ \E t \in RaceTimes \cup {NoDate} :
          racers = [run |-> [c \in Callers |-> NoRacer], remote |-> t, lowered |-> FALSE]

\* a detection arrives at the station: the newest remote timestamp grows
RemoteDetection ==
    /\ \E t \in RaceTimes : t > racers.remote /\ racers' = [racers EXCEPT !.remote = t]
    /\ UNCHANGED <<run_vars, calls, rerun, weather_vars, ext_vars>>

\* lines 189-197
RaceStart(c) ==
    /\ racers.run[c].pc = "idle"
    /\ racers' = [racers EXCEPT
           !.run[c] = [pc |-> IF last_detection_date = NoDate THEN "done" ELSE "fetch",
                       last |-> last_detection_date, newest |-> NoDate]]
    /\ UNCHANGED <<run_vars, calls, rerun, weather_vars, ext_vars>>

\* lines 208-249: the request and the loop; the greatest latest_detection of
\* the answer is the newest remote timestamp of the moment, or the request
\* raises and the run ends at line 258
RaceFetch(c) ==
    /\ racers.run[c].pc = "fetch"
    /\ \/ racers' = [racers EXCEPT
              !.run[c].newest = NextNewest(racers.run[c].last, racers.remote),
              !.run[c].pc = "write"]
       \/ racers' = [racers EXCEPT !.run[c].pc = "done"]
    /\ UNCHANGED <<run_vars, calls, rerun, weather_vars, ext_vars>>

\* lines 252-254: compared with the value this run read, then stored
RaceWrite(c) ==
    /\ racers.run[c].pc = "write"
    /\ LET r == racers.run[c]
       IN IF Newer(r.newest, r.last)
          THEN \/ /\ last_detection_date' = r.newest
                  /\ racers' = [racers EXCEPT
                         !.run[c].pc = "done",
                         !.lowered = @ \/ r.newest < last_detection_date]
               \/ /\ racers' = [racers EXCEPT !.run[c].pc = "done"]
                  /\ UNCHANGED last_detection_date
          ELSE /\ racers' = [racers EXCEPT !.run[c].pc = "done"]
               /\ UNCHANGED last_detection_date
    /\ UNCHANGED <<birds, run_locals, calls, rerun, weather_vars, ext_vars>>

\* lines 262/266: the run returns; a later run may start
RaceReturn(c) ==
    /\ racers.run[c].pc = "done"
    /\ racers' = [racers EXCEPT !.run[c] = NoRacer]
    /\ UNCHANGED <<run_vars, calls, rerun, weather_vars, ext_vars>>

NextRace ==
    \/ RemoteDetection
    \/ \E c \in Callers : RaceStart(c)
    \/ \E c \in Callers : RaceFetch(c)
    \/ \E c \in Callers : RaceWrite(c)
    \/ \E c \in Callers : RaceReturn(c)

SpecRace == RaceInit /\ [][NextRace]_vars

\* ------------------------------------------------ weather location resolver
\* LocationWeatherConfig.get_for_coordinates: the row of the tracked
\* location, created blank on the first request
GetForCoordinates(cfg) == IF cfg = NoConfig THEN BlankConfig ELSE cfg

AbsDiff(a, b) == IF a >= b THEN a - b ELSE b - a

\* lines 406-414
NeedsUpdate_Inclusive(cfg, lat, lon) ==
    \/ cfg.last_lat = NoCoord \/ cfg.last_lon = NoCoord
    \/ AbsDiff(cfg.last_lat, lat) >= Tolerance
    \/ AbsDiff(cfg.last_lon, lon) >= Tolerance
NeedsUpdate_RepairsDegraded(cfg, lat, lon) ==
    \/ cfg.last_lat = NoCoord \/ cfg.last_lon = NoCoord
    \/ AbsDiff(cfg.last_lat, lat) > Tolerance
    \/ AbsDiff(cfg.last_lon, lon) > Tolerance
    \/ cfg.conditions_url = NoValue \/ cfg.forecast_url = NoPoint
NeedsUpdate(cfg, lat, lon) ==
    \/ cfg.last_lat = NoCoord \/ cfg.last_lon = NoCoord
    \/ AbsDiff(cfg.last_lat, lat) > Tolerance
    \/ AbsDiff(cfg.last_lon, lon) > Tolerance

\* get_nws_point_data(lat, lon): the data of the point
PointData(lat, lon) == lat * (MaxCoord + 1) + lon

\* point_data.get('forecast_url') (lines 134, 428)
ForecastUrl(lat, lon, o) == IF o.forecast THEN PointData(lat, lon) ELSE NoPoint

\* lines 425-443: the assignments to the config object
Resolved_SwapsLast(cfg, lat, lon, o) ==
    LET c1 == [cfg EXCEPT !.wfo = PointData(lat, lon), !.grid_x = PointData(lat, lon),
                          !.grid_y = PointData(lat, lon),
                          !.forecast_url = ForecastUrl(lat, lon, o)]
        c2 == IF o.point = "ok" /\ o.station \in Stations
              THEN [c1 EXCEPT !.station_id = o.station, !.conditions_url = o.station]
              ELSE c1
    IN [c2 EXCEPT !.last_lat = lon, !.last_lon = lat]
Resolved(cfg, lat, lon, o) ==
    LET c1 == [cfg EXCEPT !.wfo = PointData(lat, lon), !.grid_x = PointData(lat, lon),
                          !.grid_y = PointData(lat, lon),
                          !.forecast_url = ForecastUrl(lat, lon, o)]
        c2 == IF o.point = "ok" /\ o.station \in Stations
              THEN [c1 EXCEPT !.station_id = o.station, !.conditions_url = o.station]
              ELSE c1
    IN [c2 EXCEPT !.last_lat = lat, !.last_lon = lon]

\* get_or_update_weather_config(lat, lon) on stored row cfg0 under outcome o:
\* the row afterwards, whether a config (TRUE) or None (FALSE) is returned,
\* and the requests made
GetOrUpdateWeatherConfig_StampsOnFailure(cfg0, lat, lon, o) ==
    LET cfg == GetForCoordinates(cfg0)
        searches == IF o.point = "ok" THEN 1 ELSE 0
    IN IF ~NeedsUpdate(cfg, lat, lon)
       THEN [config |-> cfg, ret |-> TRUE, point_lookups |-> 0, station_searches |-> 0]
       ELSE IF o.point = "fail"
       THEN [config |-> [cfg EXCEPT !.last_lat = lat, !.last_lon = lon],
             ret |-> FALSE, point_lookups |-> 1, station_searches |-> 0]
       ELSE IF (o.point = "ok" /\ o.station = "error") \/ o.db = "commit_error"
       THEN [config |-> cfg, ret |-> FALSE, point_lookups |-> 1,
             station_searches |-> searches]
       ELSE [config |-> Resolved(cfg, lat, lon, o), ret |-> TRUE, point_lookups |-> 1,
             station_searches |-> searches]
GetOrUpdateWeatherConfig_TracksMoves(cfg0, lat, lon, o) ==
    LET cfg == GetForCoordinates(cfg0)
        searches == IF o.point = "ok" THEN 1 ELSE 0
    IN IF ~NeedsUpdate(cfg, lat, lon)
       THEN [config |-> [cfg EXCEPT !.last_lat = lat, !.last_lon = lon],
             ret |-> TRUE, point_lookups |-> 0, station_searches |-> 0]
       ELSE IF o.point = "fail"
       THEN [config |-> cfg, ret |-> FALSE, point_lookups |-> 1, station_searches |-> 0]
       ELSE IF (o.point = "ok" /\ o.station = "error") \/ o.db = "commit_error"
       THEN [config |-> cfg, ret |-> FALSE, point_lookups |-> 1,
             station_searches |-> searches]
       ELSE [config |-> Resolved(cfg, lat, lon, o), ret |-> TRUE, point_lookups |-> 1,
             station_searches |-> searches]
GetOrUpdateWeatherConfig(cfg0, lat, lon, o) ==
    LET cfg == GetForCoordinates(cfg0)
        searches == IF o.point = "ok" THEN 1 ELSE 0
    IN IF ~NeedsUpdate(cfg, lat, lon)
       THEN [config |-> cfg, ret |-> TRUE, point_lookups |-> 0, station_searches |-> 0]
       ELSE IF o.point = "fail"
       THEN [config |-> cfg, ret |-> FALSE, point_lookups |-> 1, station_searches |-> 0]
       ELSE IF (o.point = "ok" /\ o.station = "error") \/ o.db = "commit_error"
       THEN [config |-> cfg, ret |-> FALSE, point_lookups |-> 1,
             station_searches |-> searches]
       ELSE [config |-> Resolved(cfg, lat, lon, o), ret |-> TRUE, point_lookups |-> 1,
             station_searches |-> searches]

UpdateWeatherConfig ==
    /\ \E lat \in Coords, lon \in Coords, o \in WeatherOutcomes :
          LET r == GetOrUpdateWeatherConfig(weather_config, lat, lon, o)
          IN \* a call that makes no request meets no outcome
             /\ r.point_lookups = 0 => o = NoOutcome
             /\ weather_config' = r.config
             /\ weather_log' = [lat |-> lat, lon |-> lon, before |-> weather_config,
                                existed |-> weather_config # NoConfig,
                                needed |-> NeedsUpdate(GetForCoordinates(weather_config),
                                                       lat, lon),
                                outcome |-> o, ret |-> r.ret,
                                point_lookups |-> r.point_lookups,
                                station_searches |-> r.station_searches]
    /\ UNCHANGED <<run_vars, sync_aux, ext_vars>>

NextWeather == UpdateWeatherConfig

SpecWeather == Init /\ [][NextWeather]_vars

\* --------------------------------------------------- the metadata table
\* db.session.get(Metadata, key): the rows with the key (one or none)
RowsWithKey(rows, key) == {r \in rows : r.key = key}
HasKey(rows, key) == RowsWithKey(rows, key) # {}
ValueOf(rows, key) == (CHOOSE r \in RowsWithKey(rows, key) : TRUE).value

\* record.value = v for the stored record, else a new record is added
\* (metadata.py lines 39-45 and 78-92)
Upsert_AlwaysAdds(rows, key, v) == rows \cup {[key |-> key, value |-> v]}
Upsert(rows, key, v) ==
    IF HasKey(rows, key)
    THEN {IF r.key = key THEN [r EXCEPT !.value = v] ELSE r : r \in rows}
    ELSE rows \cup {[key |-> key, value |-> v]}

\* Metadata.get_last_detection_date (lines 18-27)
GetLastDetectionDate(rows) ==
    IF HasKey(rows, DateKey) THEN ValueOf(rows, DateKey) ELSE NoDate

\* Metadata.set_last_detection_date without the commit (lines 39-45)
SetLastDetectionDateRows(rows, v) == Upsert(rows, DateKey, v)

\* Metadata.get_station_coordinates (lines 50-70): the pair, or
\* <<NoCoord, NoCoord>> for None
GetStationCoordinates(rows) ==
    IF HasKey(rows, LatKey) /\ HasKey(rows, LonKey)
          /\ IsNumberText(ValueOf(rows, LatKey)) /\ IsNumberText(ValueOf(rows, LonKey))
    THEN <<Float(ValueOf(rows, LatKey)), Float(ValueOf(rows, LonKey))>>
    ELSE <<NoCoord, NoCoord>>

\* Metadata.set_station_coordinates without the commit (lines 84-97)
SetStationCoordinatesRows(rows, lat, lon) ==
    Upsert(Upsert(rows, LatKey, Str(lat)), LonKey, Str(lon))

\* Metadata.set_last_detection_date(v), called on an existing database
\* (test_database.py lines 126-154); a failed commit raises and stores
\* nothing
SetLastDetectionDate ==
    /\ db_file
    /\ \E v \in Times, d \in {"ok", "commit_error"} :
          /\ metadata' = IF d = "ok" THEN SetLastDetectionDateRows(metadata, v)
                                     ELSE metadata
          /\ meta_log' = [NoMetaCall EXCEPT
                 !.op = "set_date", !.date = v, !.raised = (d # "ok"),
                 !.existed = TRUE, !.rows_before = metadata,
                 !.date_set = meta_log.date_set \/ (d = "ok")]
    /\ last_detection_date' = GetLastDetectionDate(metadata')
    /\ UNCHANGED <<birds, run_locals, sync_aux, weather_vars, db_file, data_vars, caller_vars>>

\* Metadata.set_station_coordinates(lat, lon), called on an existing
\* database (test_coordinates.py lines 88-111)
SetStationCoordinates ==
    /\ db_file
    /\ \E lat \in Coords, lon \in Coords, d \in {"ok", "commit_error"} :
          /\ metadata' = IF d = "ok" THEN SetStationCoordinatesRows(metadata, lat, lon)
                                     ELSE metadata
          /\ meta_log' = [NoMetaCall EXCEPT
                 !.op = "set_coords", !.lat = lat, !.lon = lon,
                 !.ret_coords = IF d = "ok" THEN <<lat, lon>> ELSE NoCoords,
                 !.raised = (d # "ok"), !.existed = TRUE,
                 !.rows_before = metadata, !.date_set = meta_log.date_set]
    /\ UNCHANGED <<run_vars, sync_aux, weather_vars, db_file, data_vars, caller_vars>>

\* the coordinates the caller takes from station_info (database.py lines
\* 59-64 and 289-293): present when 'coords' holds two values
HasCoords(info) == info.kind = "coords"

\* what can happen inside initialize_database: db.create_all() (and
\* whether a failed create_all left a file), the commit of the watermark,
\* the station request, the commit of the coordinates; a step that is not
\* reached has one outcome
NoInfo == [kind |-> "none", lat |-> NoCoord, lon |-> NoCoord]
InitOutcomes ==
    {o \in [create : {"ok", "sql_error"}, file_after : BOOLEAN,
            dset : {"ok", "sql_error"}, info : StationInfos,
            cset : {"ok", "commit_error"}] :
        /\ o.create = "ok" => o.file_after
        /\ (o.create # "ok" \/ o.dset # "ok") => o.info = NoInfo
        /\ o.create # "ok" => o.dset = "ok"
        /\ ~HasCoords(o.info) => o.cset = "ok"}
NoInitOutcome ==
    [create |-> "ok", file_after |-> TRUE, dset |-> "ok", info |-> NoInfo,
     cset |-> "ok"]

\* initialize_database(config) (database.py lines 16-78)
InitializeDatabase_IgnoresFile(file, rows, has_path, now, hist, o) ==
    IF ~has_path \/ o.create # "ok"
    THEN [db_file |-> IF has_path THEN o.file_after ELSE file,
          metadata |-> rows, ret |-> FALSE, lookups |-> 0]
    ELSE [db_file |-> TRUE,
          metadata |-> SetLastDetectionDateRows(rows, now - hist),
          ret |-> TRUE, lookups |-> 1]
InitializeDatabase(file, rows, has_path, now, hist, o) ==
    IF ~has_path \/ file
    THEN \* lines 26-39: no path, or the file exists
         [db_file |-> file, metadata |-> rows, ret |-> FALSE, lookups |-> 0]
    ELSE IF o.create # "ok"
    THEN \* db.create_all() raises SQLAlchemyError (line 76); the file may
         \* have been created by then
         [db_file |-> o.file_after, metadata |-> rows, ret |-> FALSE,
          lookups |-> 0]
    ELSE IF o.dset # "ok"
    THEN \* the commit of set_last_detection_date raises (line 76)
         [db_file |-> TRUE, metadata |-> rows, ret |-> FALSE, lookups |-> 0]
    ELSE LET dated == SetLastDetectionDateRows(rows, now - hist)
         IN [db_file |-> TRUE,
             metadata |-> IF HasCoords(o.info) /\ o.cset = "ok"
                          THEN SetStationCoordinatesRows(dated, o.info.lat, o.info.lon)
                          ELSE dated,
             ret |-> TRUE, lookups |-> 1]

InitializeDatabaseCall ==
    \E has_path \in BOOLEAN, now \in Nows, hist \in HistDays, o \in InitOutcomes :
       /\ (~has_path \/ db_file) => o = NoInitOutcome
       /\ LET r == InitializeDatabase(db_file, metadata, has_path, now, hist, o)
          IN /\ db_file' = r.db_file
             /\ metadata' = r.metadata
             /\ meta_log' = [NoMetaCall EXCEPT
                    !.op = "initialize", !.ret = r.ret, !.existed = db_file,
                    !.rows_before = metadata, !.now = now, !.hist = hist,
                    !.lookups = r.lookups,
                    !.date_set = meta_log.date_set \/ (r.metadata # metadata)]
             /\ last_detection_date' = GetLastDetectionDate(r.metadata)
       /\ UNCHANGED <<birds, run_locals, sync_aux, weather_vars, data_vars, caller_vars>>

\* update_station_coordinates(config) (database.py lines 268-306)
UpdateStationCoordinates_AlwaysLooksUp(rows, info, cset) ==
    IF HasCoords(info) /\ cset = "ok"
    THEN [metadata |-> SetStationCoordinatesRows(rows, info.lat, info.lon),
          ret |-> <<info.lat, info.lon>>, lookups |-> 1]
    ELSE [metadata |-> rows, ret |-> NoCoords, lookups |-> 1]
UpdateStationCoordinates(rows, info, cset) ==
    IF GetStationCoordinates(rows) # NoCoords
    THEN [metadata |-> rows, ret |-> GetStationCoordinates(rows), lookups |-> 0]
    ELSE IF HasCoords(info) /\ cset = "ok"
    THEN [metadata |-> SetStationCoordinatesRows(rows, info.lat, info.lon),
          ret |-> <<info.lat, info.lon>>, lookups |-> 1]
    ELSE [metadata |-> rows, ret |-> NoCoords, lookups |-> 1]

UpdateStationCoordinatesCall ==
    /\ db_file
    /\ \E info \in StationInfos, cset \in {"ok", "commit_error"} :
          LET r == UpdateStationCoordinates(metadata, info, cset)
          IN /\ metadata' = r.metadata
             /\ meta_log' = [NoMetaCall EXCEPT
                    !.op = "update_coords", !.ret_coords = r.ret,
                    !.existed = TRUE, !.rows_before = metadata,
                    !.lookups = r.lookups, !.date_set = meta_log.date_set]
    /\ UNCHANGED <<run_vars, sync_aux, weather_vars, db_file, data_vars, caller_vars>>

\* the metadata table from the first start of the application on: no
\* database file, no rows
MetaSpecInit ==
    /\ last_detection_date = NoDate
    /\ birds = {}
    /\ RunLocalsInit
    /\ CallsInit /\ rerun = NoRerun /\ racers = NoRace /\ WeatherInit
    /\ db_file = FALSE /\ metadata = {} /\ meta_log = NoMetaCall
    /\ DataInit
    /\ CallerInit

NextMeta ==
    \/ InitializeDatabaseCall
    \/ SetLastDetectionDate
    \/ SetStationCoordinates
    \/ UpdateStationCoordinatesCall

SpecMeta == MetaSpecInit /\ [][NextMeta]_vars

\* ------------------------------------------- the period of the request
\* Instants here are counted in ticks of 1/TicksPerDay of a day.  The
\* local clock runs up to MaxClock; the remote stamps a detection with its
\* own clock, which may be up to MaxSkew ticks ahead of the local one.
TicksPerDay == 2
MaxClock == 5
MaxSkew == 2

\* line 202: (now - last_date).days + 1; timedelta.days is the floor of the
\* difference in days, also when the difference is negative
DaysDiff_NoMargin(now, last_date) == (now - last_date) \div TicksPerDay
DaysDiff(now, last_date) == ((now - last_date) \div TicksPerDay) + 1

\* lines 191-205: update_database reads the watermark and the clock and
\* builds the period of the request
StartRunAt ==
    /\ StartRunLocals
    /\ period' = IF last_detection_date = NoDate THEN period
                 ELSE [built |-> TRUE,
                       count |-> DaysDiff(clock, last_detection_date),
                       unit |-> "day", now |-> clock,
                       since |-> last_detection_date]
    /\ UNCHANGED <<sync_aux, weather_vars, meta_vars, data_vars, cancel, config,
                   raise_log, station_search, stats_requests, cond_log,
                   conversion, clock>>

\* the remote answers the topSpecies request: nothing, or a species whose
\* latest detection carries any timestamp of the remote clock
AheadResponses(now) ==
    {<<>>} \cup
    {<<[species_id |-> s, count |-> 1, details |-> "ok", timestamp |-> t]>> :
        s \in Species, t \in 1..(now + MaxSkew)}

FetchAhead ==
    /\ pc = "fetch"
    /\ \E top \in AheadResponses(clock) : FetchStatsOf(top)

\* time passes between two runs
Tick ==
    /\ pc = "idle"
    /\ clock < MaxClock
    /\ clock' = clock + 1
    /\ UNCHANGED <<run_vars, sync_aux, weather_vars, meta_vars, data_vars, cancel,
                   config, raise_log, station_search, stats_requests, cond_log,
                   conversion, period>>

\* initialize_database (lines 47-52) has stored now - historical_days as
\* the watermark, historical_days ago
PeriodInit ==
    /\ birds = {}
    /\ RunLocalsInit
    /\ CallsInit /\ rerun = NoRerun /\ racers = NoRace /\ WeatherInit
    /\ MetaInit /\ DataInit
    /\ cancel = NoCancel /\ config = CompleteConfig /\ raise_log = NoRaise
    /\ station_search = NoSearch /\ stats_requests = 0
    /\ cond_log = NoConditionsCall /\ conversion = NoConversion
    /\ period = NoPeriod
    /\ \E hist \in HistDays :
          /\ last_detection_date = 1
          /\ clock = 1 + hist * TicksPerDay

NextPeriod ==
    \/ Tick
    \/ StartRunAt
    \/ FetchFails
    \/ FetchAhead
    \/ ProcessSpecies
    \/ AbortInLoop
    \/ FinishRun
    \/ ReturnStats

SpecPeriod == PeriodInit /\ [][NextPeriod]_vars

\* ------------------------------------------------- numbers with decimals
\* A measurement is a finite decimal m * 10^e (m not ending in 0; zero is
\* 0 * 10^0) or None.  Products and sums are exact here; the floats of the
\* code differ from them by rounding in the 16th digit at most.
Dec(m, e) == [m |-> m, e |-> e]
NoNumber == [none |-> TRUE]

RECURSIVE Pow10(_)
Pow10(k) == IF k = 0 THEN 1 ELSE 10 * Pow10(k - 1)

RECURSIVE Norm(_)
Norm(x) ==
    IF x.m = 0 THEN Dec(0, 0)
    ELSE IF x.m % 10 = 0 THEN Norm(Dec(x.m \div 10, x.e + 1)) ELSE x

Mul(a, b) == Norm(Dec(a.m * b.m, a.e + b.e))
Plus(a, b) ==
    LET e == IF a.e < b.e THEN a.e ELSE b.e
    IN Norm(Dec(a.m * Pow10(a.e - e) + b.m * Pow10(b.e - e), e))
\* x / 5 and x / 100
Fifth(a) == Mul(a, Dec(2, -1))
Hundredth(a) == Mul(a, Dec(1, -2))

\* nws_api.py lines 23-27
CELSIUS_TO_FAHRENHEIT(c) ==
    IF c = NoNumber THEN NoNumber ELSE Plus(Fifth(Mul(c, Dec(9, 0))), Dec(32, 0))
KMH_TO_MPH(kmh) ==
    IF kmh = NoNumber THEN NoNumber ELSE Mul(kmh, Dec(621371, -6))
PASCAL_TO_HPA(pa) ==
    IF pa = NoNumber THEN NoNumber ELSE Hundredth(pa)
METERS_TO_MILES(m) ==
    IF m = NoNumber THEN NoNumber ELSE Mul(m, Dec(621371, -9))
MM_TO_INCHES(mm) ==
    IF mm = NoNumber THEN NoNumber ELSE Mul(mm, Dec(393701, -7))

\* ------------------------------------------------ the unit conversions
\* the readings converted: m * 10^e for m up to MaxMantissa and e from
\* a tenth (-1) to MaxExp, and None
MaxMantissa == 254
MaxExp == 5
Readings ==
    {Norm(Dec(m, e)) : m \in 0..MaxMantissa, e \in (-1)..MaxExp} \cup {NoNumber}

Conversions ==
    {"CELSIUS_TO_FAHRENHEIT", "KMH_TO_MPH", "PASCAL_TO_HPA", "METERS_TO_MILES",
     "MM_TO_INCHES"}

Apply(fn, x) ==
    CASE fn = "CELSIUS_TO_FAHRENHEIT" -> CELSIUS_TO_FAHRENHEIT(x)
      [] fn = "KMH_TO_MPH" -> KMH_TO_MPH(x)
      [] fn = "PASCAL_TO_HPA" -> PASCAL_TO_HPA(x)
      [] fn = "METERS_TO_MILES" -> METERS_TO_MILES(x)
      [] fn = "MM_TO_INCHES" -> MM_TO_INCHES(x)

UnitsInit ==
    /\ last_detection_date = MaxTime
    /\ birds = {}
    /\ RunLocalsInit
    /\ CallsInit /\ rerun = NoRerun /\ racers = NoRace /\ WeatherInit
    /\ MetaInit /\ DataInit
    /\ cancel = NoCancel /\ config = CompleteConfig /\ raise_log = NoRaise
    /\ station_search = NoSearch /\ stats_requests = 0
    /\ cond_log = NoConditionsCall /\ clock = NoClock /\ period = NoPeriod
    /\ \E fn \in Conversions, x \in Readings :
          conversion = [NoConversion EXCEPT !.fn = fn, !.input = x]

Convert ==
    /\ conversion.fn # "none"
    /\ ~conversion.done
    /\ conversion' = [conversion EXCEPT !.done = TRUE,
                                        !.output = Apply(conversion.fn, conversion.input)]
    /\ UNCHANGED <<run_vars, sync_aux, weather_vars, meta_vars, data_vars, cancel,
                   config, raise_log, station_search, stats_requests, cond_log,
                   clock, period>>

NextUnits == Convert

SpecUnits == UnitsInit /\ [][NextUnits]_vars

\* ------------------------------------------------ current conditions
\* update_current_conditions calls followed
MaxRows == 2

\* the 'properties' of the latest observation of a station: the timestamp
\* (NoDate: none), and the 'value' of temperature, windChill, heatIndex and
\* windSpeed (dew point, gusts, pressure, visibility and precipitation go
\* through the same conversions; humidity, description and icon are copied)
Observations ==
    [timestamp : {NoDate, MaxTime},
     temperature : {NoNumber, Dec(2, 1)},
     windChill : {NoNumber, Dec(0, 0)},
     heatIndex : {NoNumber, Dec(3, 1)},
     windSpeed : {NoNumber, Dec(1, 2)}]

\* what the request of get_current_conditions can meet: a failed request, a
\* body that is not JSON or a timestamp that does not parse (ValueError), a
\* property given as null instead of an object (AttributeError), or an
\* observation
AnswerFailures == {"request_error", "value_error", "null_property"}
ConditionsAnswers ==
    {[kind |-> k] : k \in AnswerFailures} \cup
    {[kind |-> "observation", props |-> p] : p \in Observations}
NoAnswer == [kind |-> "none"]

\* lines 280-286
FeelsLike_HeatIndexFirst(windchill_f, heatindex_f, temp_f) ==
    IF heatindex_f # NoNumber THEN heatindex_f
    ELSE IF windchill_f # NoNumber THEN windchill_f
    ELSE temp_f
FeelsLike(windchill_f, heatindex_f, temp_f) ==
    IF windchill_f # NoNumber THEN windchill_f
    ELSE IF heatindex_f # NoNumber THEN heatindex_f
    ELSE temp_f

\* get_current_conditions(conditions_url) on the answer of the request: the
\* dictionary, {} ("empty"), or an exception it does not catch ("raised")
GetCurrentConditions(answer) ==
    IF answer.kind \in {"request_error", "value_error"} THEN [kind |-> "empty"]
    ELSE IF answer.kind = "null_property" THEN [kind |-> "raised"]
    ELSE IF answer.props.timestamp = NoDate THEN [kind |-> "empty"]
    ELSE LET props == answer.props
             temp_f == CELSIUS_TO_FAHRENHEIT(props.temperature)
             windchill_f == CELSIUS_TO_FAHRENHEIT(props.windChill)
             heatindex_f == CELSIUS_TO_FAHRENHEIT(props.heatIndex)
         IN [kind |-> "data",
             timestamp |-> props.timestamp,
             temperature |-> temp_f,
             feels_like |-> FeelsLike(windchill_f, heatindex_f, temp_f),
             wind_speed |-> KMH_TO_MPH(props.windSpeed)]

\* the CurrentConditions row built from the dictionary (lines 475-492); the
\* table numbers its rows
ConditionsRow(rows, data) ==
    [id |-> Cardinality(rows) + 1, timestamp |-> data.timestamp,
     temperature |-> data.temperature, feels_like |-> data.feels_like,
     wind_speed |-> data.wind_speed]

\* update_current_conditions(config) on the committed rows, under the
\* answer of the request and the outcome of the commit: the rows afterwards,
\* the value returned and the requests made
UpdateCurrentConditions_ReplacesLatest(rows, cfg, answer, db) ==
    LET data == GetCurrentConditions(answer)
    IN IF cfg.conditions_url = NoValue
       THEN [rows |-> rows, ret |-> FALSE, requests |-> 0]
       ELSE IF data.kind # "data" \/ db = "commit_error"
       THEN [rows |-> rows, ret |-> FALSE, requests |-> 1]
       ELSE [rows |-> {ConditionsRow(rows, data)}, ret |-> TRUE, requests |-> 1]
UpdateCurrentConditions(rows, cfg, answer, db) ==
    LET data == GetCurrentConditions(answer)
    IN IF cfg.conditions_url = NoValue
       THEN \* line 465
            [rows |-> rows, ret |-> FALSE, requests |-> 0]
       ELSE IF data.kind # "data" \/ db = "commit_error"
       THEN \* lines 471-473, and 504-507: the session is rolled back
            [rows |-> rows, ret |-> FALSE, requests |-> 1]
       ELSE [rows |-> rows \cup {ConditionsRow(rows, data)}, ret |-> TRUE,
             requests |-> 1]

\* ------------------------------------------------ update_weather_data
\* update_weather_data followed statement by statement; `forecasts` and
\* `conditions` are what is committed, which is what every other
\* connection reads, and refresh.tx is what the session of the call holds
\* uncommitted
Refreshing(p) == refresh.pc = p

EndUpdate(r, message) ==
    [r EXCEPT !.pc = "done", !.status.message = message, !.tx = NoTx]

\* lines 586-596: the stored station coordinates are read
WeatherStart_ResetsWatermark ==
    /\ Refreshing("idle")
    /\ refresh.gen < MaxGen
    /\ refresh' = [NoRefresh EXCEPT !.gen = refresh.gen + 1, !.pc = "done"]
    /\ last_detection_date' = NoDate
    /\ UNCHANGED <<birds, run_locals, sync_aux, weather_vars, meta_vars, forecasts,
                   conditions, caller_vars>>
WeatherStart ==
    /\ Refreshing("idle")
    /\ refresh.gen < MaxGen
    /\ LET coords == GetStationCoordinates(metadata)
           r == [NoRefresh EXCEPT !.gen = refresh.gen + 1, !.old = forecasts]
       IN \/ /\ coords = NoCoords
             /\ refresh' = EndUpdate(r, "no_coordinates")
          \/ /\ coords # NoCoords
             /\ refresh' = [r EXCEPT !.pc = "config", !.lat = coords[1],
                                     !.lon = coords[2]]
          \/ \* the read raises: the handler at line 622
             refresh' = EndUpdate(r, "error")
    /\ UNCHANGED <<run_vars, sync_aux, weather_vars, meta_vars, forecasts,
                   conditions, caller_vars>>

\* lines 598-603: get_or_update_weather_config(lat, lon)
WeatherConfig ==
    /\ Refreshing("config")
    /\ \E o \in WeatherOutcomes :
          LET r == GetOrUpdateWeatherConfig(weather_config, refresh.lat,
                                           refresh.lon, o)
          IN /\ r.point_lookups = 0 => o = NoOutcome
             /\ weather_config' = r.config
             /\ refresh' = IF r.ret
                            THEN [refresh EXCEPT !.pc = "conditions",
                                      !.lookups = r.point_lookups + r.station_searches]
                            ELSE EndUpdate([refresh EXCEPT !.lookups =
                                      r.point_lookups + r.station_searches],
                                           "config_failed")
    /\ UNCHANGED <<run_vars, sync_aux, weather_log, meta_vars, forecasts,
                   conditions, caller_vars>>

\* the answers followed inside update_weather_data: a failed request or
\* one observation
LatestObservation ==
    [timestamp |-> MaxTime, temperature |-> Dec(2, 1), windChill |-> NoNumber,
     heatIndex |-> NoNumber, windSpeed |-> Dec(1, 2)]
StepAnswers(cfg) ==
    IF cfg.conditions_url = NoValue THEN {NoAnswer}
    ELSE {[kind |-> "request_error"],
          [kind |-> "observation", props |-> LatestObservation]}

\* lines 605-607: update_current_conditions(config) (lines 455-507)
WeatherConditions ==
    /\ Refreshing("conditions")
    /\ \E answer \in StepAnswers(weather_config), db \in {"ok", "commit_error"} :
          LET r == UpdateCurrentConditions(conditions, weather_config, answer, db)
          IN /\ (answer = NoAnswer \/ GetCurrentConditions(answer).kind # "data")
                   => db = "ok"
             /\ conditions' = r.rows
             /\ refresh' = [refresh EXCEPT !.pc = "forecast",
                                !.status.current_conditions_updated = r.ret]
    /\ UNCHANGED <<run_vars, sync_aux, weather_vars, meta_vars, forecasts,
                   caller_vars>>

\* update_forecast ends without a commit: a rollback (line 563) or an
\* early return; the committed rows stay, the session holds nothing
ForecastFails_Commits(committed, tx) == IF tx.open THEN tx.rows ELSE committed
ForecastFails(committed, tx) == committed

ForecastEnds(how) ==
    /\ forecasts' = ForecastFails(forecasts, refresh.tx)
    /\ refresh' = [refresh EXCEPT !.pc = "finish", !.tx = NoTx, !.forecast = how]

\* update_forecast lines 520-531: no forecast url; get_forecast gives []
\* (a failed request, an unusable answer, no period with both times); or
\* the parsed periods
ForecastFetch ==
    /\ Refreshing("forecast")
    /\ \/ /\ weather_config.forecast_url = NoPoint
          /\ ForecastEnds("no_url")
       \/ /\ weather_config.forecast_url # NoPoint
          /\ \/ ForecastEnds("fetch_failed")
             \/ ForecastEnds("no_periods")
             \/ \E n \in 1..MaxPeriods :
                   /\ refresh' = [refresh EXCEPT !.pc = "delete", !.periods = n]
                   /\ UNCHANGED forecasts
    /\ UNCHANGED <<run_vars, sync_aux, weather_vars, meta_vars, conditions,
                   caller_vars>>

\* line 534: Forecast.query.filter_by(location_id=config.id).delete(),
\* executed in the session's transaction
ForecastDelete_Autocommit ==
    /\ Refreshing("delete")
    /\ forecasts' = {}
    /\ refresh' = [refresh EXCEPT !.pc = "insert", !.tx = [open |-> TRUE, rows |-> {}]]
    /\ UNCHANGED <<run_vars, sync_aux, weather_vars, meta_vars, conditions,
                   caller_vars>>
ForecastDelete ==
    /\ Refreshing("delete")
    /\ \/ /\ refresh' = [refresh EXCEPT !.pc = "insert",
                               !.tx = [open |-> TRUE, rows |-> {}]]
          /\ UNCHANGED forecasts
       \/ ForecastEnds("delete_error")
    /\ UNCHANGED <<run_vars, sync_aux, weather_vars, meta_vars, conditions,
                   caller_vars>>

\* lines 537-554: one Forecast row is built and added to the session
ForecastInsert ==
    /\ Refreshing("insert")
    /\ Cardinality(refresh.tx.rows) < refresh.periods
    /\ \/ /\ refresh' = [refresh EXCEPT !.tx.rows =
                    ForecastRows(refresh.gen, Cardinality(refresh.tx.rows) + 1)]
          /\ UNCHANGED forecasts
       \/ ForecastEnds("insert_error")
    /\ UNCHANGED <<run_vars, sync_aux, weather_vars, meta_vars, conditions,
                   caller_vars>>

\* line 557: db.session.commit()
ForecastCommit ==
    /\ Refreshing("insert")
    /\ Cardinality(refresh.tx.rows) = refresh.periods
    /\ \/ /\ forecasts' = refresh.tx.rows
          /\ refresh' = [refresh EXCEPT !.pc = "finish", !.tx = NoTx,
                             !.forecast = "committed",
                             !.status.forecast_updated = TRUE]
       \/ ForecastEnds("commit_error")
    /\ UNCHANGED <<run_vars, sync_aux, weather_vars, meta_vars, conditions,
                   caller_vars>>

\* lines 612-619: the overall status
WeatherFinish_NeedsBoth ==
    /\ Refreshing("finish")
    /\ LET ok == refresh.status.current_conditions_updated
                    /\ refresh.status.forecast_updated
       IN refresh' = [refresh EXCEPT !.pc = "done", !.status.success = ok,
                         !.status.message = IF ok THEN "updated" ELSE "failed"]
    /\ UNCHANGED <<run_vars, sync_aux, weather_vars, meta_vars, forecasts,
                   conditions, caller_vars>>
WeatherFinish ==
    /\ Refreshing("finish")
    /\ LET ok == refresh.status.current_conditions_updated
                    \/ refresh.status.forecast_updated
       IN refresh' = [refresh EXCEPT !.pc = "done", !.status.success = ok,
                         !.status.message = IF ok THEN "updated" ELSE "failed"]
    /\ UNCHANGED <<run_vars, sync_aux, weather_vars, meta_vars, forecasts,
                   conditions, caller_vars>>

\* line 619 (and 596, 603, 625): the status dictionary is returned
WeatherReturn ==
    /\ Refreshing("done")
    /\ refresh' = [refresh EXCEPT !.pc = "idle", !.returned = TRUE]
    /\ UNCHANGED <<run_vars, sync_aux, weather_vars, meta_vars, forecasts,
                   conditions, caller_vars>>

WeatherUpdateStep ==
    \/ WeatherStart
    \/ WeatherConfig
    \/ WeatherConditions
    \/ ForecastFetch
    \/ ForecastDelete
    \/ ForecastInsert
    \/ ForecastCommit
    \/ WeatherFinish
    \/ WeatherReturn

\* weather updates, one after the other, on an initialized database with a
\* watermark, with or without stored station coordinates
DataSpecInit ==
    /\ last_detection_date = MaxTime
    /\ birds = {}
    /\ RunLocalsInit
    /\ CallsInit /\ rerun = NoRerun /\ racers = NoRace /\ WeatherInit
    /\ db_file = TRUE
    /\ metadata \in {{}, SetStationCoordinatesRows({}, MaxCoord, MaxCoord)}
    /\ meta_log = NoMetaCall
    /\ DataInit
    /\ CallerInit

NextData == WeatherUpdateStep

SpecData == DataSpecInit /\ [][NextData]_vars

\* weather updates one after the other, on a database with or without
\* stored station coordinates; the operator sets or moves the station once,
\* between two of them
MoveStation ==
    /\ Refreshing("idle")
    /\ refresh.gen > 0
    /\ meta_log = NoMetaCall
    /\ SetStationCoordinates

MovesSpecInit ==
    /\ last_detection_date = MaxTime
    /\ birds = {}
    /\ RunLocalsInit
    /\ CallsInit /\ rerun = NoRerun /\ racers = NoRace /\ WeatherInit
    /\ db_file = TRUE
    /\ metadata \in {{}, SetStationCoordinatesRows({}, 1, 1)}
    /\ meta_log = NoMetaCall
    /\ DataInit
    /\ CallerInit

NextMoves ==
    \/ MoveStation
    \/ WeatherUpdateStep

SpecMoves == MovesSpecInit /\ [][NextMoves]_vars

\* the station coordinates are set, changed and looked up by the operator
\* and the application; then one weather update runs
CoordsSpecInit ==
    /\ last_detection_date = MaxTime
    /\ birds = {}
    /\ RunLocalsInit
    /\ AuxInit

WeatherStartOnce == refresh.gen = 0 /\ WeatherStart

NextCoords ==
    \/ refresh = NoRefresh /\ SetStationCoordinates
    \/ refresh = NoRefresh /\ UpdateStationCoordinatesCall
    \/ WeatherStartOnce
    \/ WeatherConfig
    \/ WeatherConditions
    \/ ForecastFetch
    \/ ForecastDelete
    \/ ForecastInsert
    \/ ForecastCommit
    \/ WeatherFinish
    \/ WeatherReturn

SpecCoords == CoordsSpecInit /\ [][NextCoords]_vars

\* ------------------------------------------------- find_closest_station
\* haversine_distance between two points of one meridian grows with the
\* difference of the latitudes
Distance(lat1, lat2) == AbsDiff(lat1, lat2)

Infinity == MaxCoord + 1

\* one pass of the for loop (lines 170-192) over entry i, from the state
\* [at, min, raised] of the loop: the index of closest_station (0: None),
\* min_distance, and whether an exception left the function
RECURSIVE ClosestFrom(_, _, _, _)
ClosestFrom(listing, lat, i, st) ==
    IF i > Len(listing) \/ st.raised THEN st
    ELSE LET e == listing[i]
         IN IF e.geometry = "null"
            THEN \* None.get: AttributeError, not among the exceptions of line 202
                 [st EXCEPT !.raised = TRUE]
            ELSE IF e.geometry # "point"
            THEN \* line 173: len(station_coords) < 2
                 ClosestFrom(listing, lat, i + 1, st)
            ELSE IF e.lat = 0 \/ e.id = NoValue
            THEN \* line 179: not all([station_lat, station_lon, station_id])
                 ClosestFrom(listing, lat, i + 1, st)
            ELSE IF Distance(lat, e.lat) < st.min
            THEN ClosestFrom(listing, lat, i + 1,
                             [st EXCEPT !.at = i, !.min = Distance(lat, e.lat)])
            ELSE ClosestFrom(listing, lat, i + 1, st)

\* find_closest_station (lines 155-204) on a listing that was fetched
FindClosestStation(listing, lat) ==
    LET st == ClosestFrom(listing, lat, 1, [at |-> 0, min |-> Infinity, raised |-> FALSE])
    IN IF st.raised THEN [ret |-> "raises", at |-> 0]
       ELSE IF st.at = 0 THEN NoResult
       ELSE [ret |-> "station", at |-> st.at]

StationSearchInit ==
    /\ last_detection_date = MaxTime
    /\ birds = {}
    /\ RunLocalsInit
    /\ CallsInit /\ rerun = NoRerun /\ racers = NoRace /\ WeatherInit
    /\ MetaInit /\ DataInit
    /\ cancel = NoCancel /\ config = CompleteConfig /\ raise_log = NoRaise
    /\ stats_requests = 0
    /\ ProbeInit
    /\ \E listing \in SeqsUpTo(StationEntries, MaxStations), lat \in Coords :
          station_search = [NoSearch EXCEPT !.pc = "asked", !.listing = listing,
                                            !.lat = lat]

FindStation ==
    /\ station_search.pc = "asked"
    /\ station_search' = [station_search EXCEPT
           !.pc = "answered",
           !.result = FindClosestStation(station_search.listing, station_search.lat)]
    /\ UNCHANGED <<run_vars, sync_aux, weather_vars, meta_vars, data_vars,
                   cancel, config, raise_log, stats_requests, probe_vars>>

NextStations == FindStation

SpecStations == StationSearchInit /\ [][NextStations]_vars

\* ------------------------------------------------ exceptions and handlers
\* the exceptions the requests, the answers, the configuration and the
\* storage raise
ExcKinds ==
    {"ValueError", "KeyError", "RequestException", "SQLAlchemyError",
     "AttributeError", "TypeError"}

\* an except clause: what it catches, and whether its body calls
\* db.session.rollback() unguarded, which can raise in turn
ExceptException_OnlyStorage == [catches |-> {"SQLAlchemyError"}, rollback |-> FALSE]
ExceptException == [catches |-> ExcKinds, rollback |-> FALSE]
ExceptExceptionRollback == [catches |-> ExcKinds, rollback |-> TRUE]
\* except (requests.RequestException, ValueError, KeyError)
ExceptRequestValueKey ==
    [catches |-> {"RequestException", "ValueError", "KeyError"}, rollback |-> FALSE]
\* except requests.RequestException: ... raise
ExceptRequestReraise == [catches |-> {}, rollback |-> FALSE]
\* except requests.RequestException: return None
ExceptRequest == [catches |-> {"RequestException"}, rollback |-> FALSE]

\* the statements of update_database and of what it calls that can raise,
\* each with the except clauses around it from the innermost to the one at
\* line 264
DatabaseSites ==
    {[site |-> "get_last_detection_date", chain |-> <<ExceptException>>],
     [site |-> "fromisoformat", chain |-> <<ExceptException>>],
     [site |-> "validate_config", chain |-> <<ExceptException, ExceptException>>],
     [site |-> "top_species_request",
      chain |-> <<ExceptRequestReraise, ExceptException, ExceptException>>],
     [site |-> "detections_request",
      chain |-> <<ExceptRequest, ExceptException, ExceptException>>],
     [site |-> "sum_counts", chain |-> <<ExceptException, ExceptException>>],
     [site |-> "session_get_bird", chain |-> <<ExceptException, ExceptException>>],
     [site |-> "species_request",
      chain |-> <<ExceptRequestReraise, ExceptException, ExceptException,
                  ExceptException>>],
     [site |-> "bird_commit",
      chain |-> <<ExceptException, ExceptException, ExceptException>>],
     [site |-> "download_bird_image",
      chain |-> <<ExceptException, ExceptException, ExceptException,
                  ExceptException>>],
     [site |-> "set_last_detection_date",
      chain |-> <<ExceptException, ExceptException>>],
     [site |-> "logging_info", chain |-> <<ExceptException>>]}

\* the same for update_weather_data, up to the clause at line 622
WeatherSites ==
    {[site |-> "get_station_coordinates", chain |-> <<ExceptException>>],
     [site |-> "get_for_coordinates", chain |-> <<ExceptException, ExceptException>>],
     [site |-> "point_request",
      chain |-> <<ExceptRequestValueKey, ExceptException, ExceptException>>],
     [site |-> "stations_request",
      chain |-> <<ExceptRequestValueKey, ExceptException, ExceptException>>],
     [site |-> "config_commit", chain |-> <<ExceptException, ExceptException>>],
     [site |-> "conditions_url", chain |-> <<ExceptException>>],
     [site |-> "conditions_request",
      chain |-> <<ExceptRequestValueKey, ExceptExceptionRollback, ExceptException>>],
     [site |-> "conditions_commit",
      chain |-> <<ExceptExceptionRollback, ExceptException>>],
     [site |-> "forecast_url", chain |-> <<ExceptException>>],
     [site |-> "forecast_request",
      chain |-> <<ExceptRequestValueKey, ExceptExceptionRollback, ExceptException>>],
     [site |-> "forecast_delete", chain |-> <<ExceptExceptionRollback, ExceptException>>],
     [site |-> "forecast_add", chain |-> <<ExceptExceptionRollback, ExceptException>>],
     [site |-> "forecast_commit", chain |-> <<ExceptExceptionRollback, ExceptException>>]}

RaiseSites ==
    {[fn |-> "update_database", site |-> s.site, chain |-> s.chain] : s \in DatabaseSites}
        \cup {[fn |-> "update_weather_data", site |-> s.site, chain |-> s.chain] :
                 s \in WeatherSites}

\* whether an exception of the kind, raised inside the clauses of the
\* chain from clause i on, leaves the outermost of them: a clause that
\* catches it ends it, unless its rollback fails and raises a storage error
\* to the clauses further out
RECURSIVE Escapes(_, _, _, _)
Escapes(chain, i, kind, rollback_fails) ==
    IF i > Len(chain) THEN TRUE
    ELSE IF kind \in chain[i].catches
    THEN IF chain[i].rollback /\ rollback_fails
         THEN Escapes(chain, i + 1, "SQLAlchemyError", rollback_fails)
         ELSE FALSE
    ELSE Escapes(chain, i + 1, kind, rollback_fails)

\* one exception in one call of update_database or update_weather_data
RaiseInit ==
    /\ last_detection_date = MaxTime
    /\ birds = {}
    /\ RunLocalsInit
    /\ CallsInit /\ rerun = NoRerun /\ racers = NoRace /\ WeatherInit
    /\ MetaInit /\ DataInit
    /\ cancel = NoCancel /\ config = CompleteConfig /\ station_search = NoSearch
    /\ stats_requests = 0
    /\ ProbeInit
    /\ \E s \in RaiseSites, k \in ExcKinds, f \in BOOLEAN :
          raise_log = [fn |-> s.fn, site |-> s.site, chain |-> s.chain, kind |-> k,
                       rollback_fails |-> f, result |-> "none"]

\* the exception is raised and travels through the except clauses; the
\* function returns its dictionary (the stats at lines 262/266, the status
\* at lines 596-625) or the exception reaches the caller
RaiseAndHandle ==
    /\ raise_log.result = "none"
    /\ raise_log.fn # "none"
    /\ raise_log' = [raise_log EXCEPT !.result =
           IF Escapes(raise_log.chain, 1, raise_log.kind, raise_log.rollback_fails)
           THEN "raised" ELSE "returned"]
    /\ UNCHANGED <<run_vars, sync_aux, weather_vars, meta_vars, data_vars,
                   cancel, config, station_search, stats_requests, probe_vars>>

NextRaise == RaiseAndHandle

SpecRaise == RaiseInit /\ [][NextRaise]_vars

\* ------------------------------- one sync run beside one weather update
\* lines 405-418 of get_species_detection_stats, before any request
ValidateConfig_IgnoresStation(cfg) ==
    IF cfg = "no_api" THEN "missing"
    ELSE IF cfg \in {"no_url", "no_key"} THEN "incomplete"
    ELSE "ok"
ValidateConfig(cfg) ==
    IF cfg = "no_api" THEN "missing"
    ELSE IF cfg \in {"no_url", "no_key", "no_station_id"} THEN "incomplete"
    ELSE "ok"

\* the topSpecies answers of the run followed here: at most one item
AppTops == {top \in TopResponses : Len(top) <= 1}

\* the topSpecies request, and a detections request for every item with an
\* id (lines 515-555)
StatsRequests(top) == 1 + Len(SelectSeq(top, LAMBDA item : item.species_id # NoId))

\* lines 208-216 with the configuration looked at: the ValueError of lines
\* 407/418 or a failed request ends the run at line 258; else as FetchStatsOf
AppFetch ==
    /\ pc = "fetch"
    /\ IF ValidateConfig(config) # "ok"
       THEN /\ pc' = "done"
            /\ run_result' = "config_error"
            /\ UNCHANGED <<top_species_data, species_stats_list, idx,
                           newest_detection_date, stats, stats_requests>>
       ELSE \/ /\ pc' = "done"
               /\ run_result' = "top_failed"
               /\ stats_requests' = stats_requests + 1
               /\ UNCHANGED <<top_species_data, species_stats_list, idx,
                              newest_detection_date, stats>>
            \/ \E top \in AppTops :
                  /\ top_species_data' = top
                  /\ species_stats_list' = CollectStats(top)
                  /\ stats' = [stats EXCEPT
                         !.total_detections = SumCounts(CollectStats(top))]
                  /\ newest_detection_date' = run_last
                  /\ idx' = 1
                  /\ pc' = "loop"
                  /\ stats_requests' = stats_requests + StatsRequests(top)
                  /\ UNCHANGED run_result
    /\ UNCHANGED <<last_detection_date, birds, run_last, birds_at_start,
                   step_log, run_added, enrich_status, call_log>>
    /\ UNCHANGED <<sync_aux, weather_vars, meta_vars, data_vars, cancel, config,
                   raise_log, station_search, probe_vars>>

\* the caller of update_database gives up while the run is under way;
\* update_database takes no parameter through which it could learn of it
\* (line 171)
RequestCancel ==
    /\ pc \in {"fetch", "loop"}
    /\ ~cancel
    /\ cancel' = TRUE
    /\ UNCHANGED <<run_vars, sync_aux, weather_vars, meta_vars, data_vars, config,
                   raise_log, station_search, stats_requests, probe_vars>>

\* an initialized database with a watermark and station coordinates, any
\* configuration of the BirdWeather API
AppInit ==
    /\ last_detection_date \in Times
    /\ birds = {}
    /\ RunLocalsInit
    /\ CallsInit /\ rerun = NoRerun /\ racers = NoRace /\ WeatherInit
    /\ db_file = TRUE
    /\ metadata = SetStationCoordinatesRows({}, MaxCoord, MaxCoord)
    /\ meta_log = NoMetaCall
    /\ DataInit
    /\ cancel = NoCancel /\ raise_log = NoRaise /\ station_search = NoSearch
    /\ stats_requests = 0
    /\ ProbeInit
    /\ config \in Configs

NextApp ==
    \/ StartRun
    \/ AppFetch
    \/ ProcessSpecies
    \/ AbortInLoop
    \/ FinishRun
    \/ RequestCancel
    \/ WeatherStartOnce
    \/ WeatherConfig
    \/ WeatherConditions
    \/ ForecastFetch
    \/ ForecastDelete
    \/ ForecastInsert
    \/ ForecastCommit
    \/ WeatherFinish
    \/ WeatherReturn

SpecApp == AppInit /\ [][NextApp]_vars

\* a station's config as the resolver leaves it: with a station, or
\* without one (no conditions_url)
ResolvedConfigs ==
    {Resolved(BlankConfig, MaxCoord, MaxCoord, o) :
        o \in {w \in WeatherOutcomes : w.point # "fail" /\ w.station # "error"
                                        /\ w.db = "ok"}}

ConditionsSpecInit ==
    /\ last_detection_date = MaxTime
    /\ birds = {}
    /\ RunLocalsInit
    /\ CallsInit /\ rerun = NoRerun /\ racers = NoRace
    /\ weather_config \in ResolvedConfigs /\ weather_log = NoWeatherCall
    /\ ExtInit

\* without a conditions_url no request is made and nothing answers
AnswersFor(cfg) ==
    IF cfg.conditions_url = NoValue THEN {NoAnswer} ELSE ConditionsAnswers

UpdateCurrentConditionsCall ==
    /\ Cardinality(conditions) < MaxRows
    /\ \E answer \in AnswersFor(weather_config), db \in {"ok", "commit_error"} :
          LET r == UpdateCurrentConditions(conditions, weather_config, answer, db)
          IN \* a step that is not reached has one outcome
             /\ (answer = NoAnswer \/ GetCurrentConditions(answer).kind # "data")
                   => db = "ok"
             /\ conditions' = r.rows
             /\ cond_log' = [called |-> TRUE, answer |-> answer, db |-> db,
                             data |-> IF answer = NoAnswer THEN NoAnswer
                                      ELSE GetCurrentConditions(answer),
                             ret |-> r.ret, before |-> conditions]
    /\ UNCHANGED <<run_vars, sync_aux, weather_vars, meta_vars, forecasts, refresh,
                   cancel, config, raise_log, station_search, stats_requests,
                   conversion, clock, period>>

NextConditions == UpdateCurrentConditionsCall

SpecConditions == ConditionsSpecInit /\ [][NextConditions]_vars

TypeOK ==
    /\ last_detection_date \in Times \cup {NoDate}
    /\ birds \subseteq BirdRows
    /\ pc \in {"idle", "fetch", "loop", "done"}
    /\ run_last \in Times \cup {NoDate}
    /\ top_species_data \in TopResponses
    /\ \A i \in 1..Len(species_stats_list) : species_stats_list[i] \in StatEntries
    /\ idx \in 1..(MaxList + 1)
    /\ newest_detection_date \in Times \cup {NoDate}
    /\ stats.detections_processed \in 0..(MaxList * MaxCount)
    /\ stats.new_species_added \in 0..MaxList
    /\ run_added \subseteq Species
    \* species_id is the primary key of birds
    /\ \A r1, r2 \in birds : r1.species_id = r2.species_id => r1 = r2

\* ------------------------------------------------------------------ claims
RunOver == pc = "done"

\* C1: the stored last_detection_date never gets smaller: every step of
\* every run (completed, failed on the first request, aborted) leaves it
\* greater than or equal to what it was.
C1_WatermarkNeverDecreases ==
    [][last_detection_date' >= last_detection_date]_vars

C1_Witness ==
    /\ RunOver
    /\ run_result = "completed"
    /\ last_detection_date > run_last

\* C2: a run aborted inside the per-species loop leaves the stored
\* last_detection_date at its value of the start of the run, and the species
\* rows committed before the abort remain.
C2_AbortKeepsWatermark ==
    (RunOver /\ run_result = "aborted") =>
        /\ last_detection_date = run_last
        /\ birds_at_start \subseteq birds
        /\ run_added \subseteq StoredIds(birds)

C2_Witness ==
    /\ RunOver
    /\ run_result = "aborted"
    /\ run_added # {}
    /\ \E i \in 1..(idx - 1) :
          species_stats_list[i].latest_detection > run_last

\* C3: when the topSpecies request fails, the run returns zero counts,
\* creates no Species row and leaves last_detection_date unchanged.
C3_TopLevelFailure ==
    (RunOver /\ run_result = "top_failed") =>
        /\ stats.detections_processed = 0
        /\ stats.new_species_added = 0
        /\ birds = birds_at_start
        /\ last_detection_date = run_last

C3_Witness ==
    /\ RunOver
    /\ run_result = "top_failed"
    /\ birds # {}
    /\ last_detection_date < MaxTime

\* ids and timestamps of a list of stats entries, and of the remote's answer
EntryIds(list) == {list[i].species_id : i \in 1..Len(list)}
RECURSIVE MaxLatest(_, _)
MaxLatest(list, floor) ==
    IF list = <<>> THEN floor
    ELSE LET rest == MaxLatest(Tail(list), floor)
             t == Head(list).latest_detection
         IN IF t > rest THEN t ELSE rest

\* the remote reports no detection newer than the watermark the run read
NoNewerReported ==
    \A i \in 1..Len(top_species_data) : top_species_data[i].timestamp <= run_last

\* the returned species that were absent locally when the run began and for
\* which add_bird_species returned a Bird
AddedThisRun ==
    {s \in EntryIds(species_stats_list) :
        s \notin StoredIds(birds_at_start) /\ s \in run_added}

\* C4 as stated: a run in which the remote reports no detection newer than
\* the watermark leaves the watermark unchanged and returns
\* new_species_added = 0.
C4_Original ==
    (RunOver /\ run_result # "no_watermark" /\ NoNewerReported) =>
        /\ last_detection_date = run_last
        /\ stats.new_species_added = 0

\* C4 amended: such a run leaves the watermark unchanged, and
\* new_species_added is the number of returned species that were absent
\* locally and enriched successfully: 0 when the window holds no detection
\* or every returned species is already stored.
C4_NoNewerDetections ==
    (RunOver /\ run_result # "no_watermark" /\ NoNewerReported) =>
        /\ last_detection_date = run_last
        /\ stats.new_species_added = Cardinality(AddedThisRun)
        /\ (EntryIds(species_stats_list) \subseteq StoredIds(birds_at_start)
               => stats.new_species_added = 0)

C4_Witness ==
    /\ RunOver
    /\ run_result = "completed"
    /\ NoNewerReported
    /\ Len(species_stats_list) = 2
    /\ stats.new_species_added = 1
    /\ stats.detections_processed > 0

\* C5: after a run that completes, last_detection_date is the maximum of the
\* previous watermark and the latest_detection values of the returned
\* species, detections_processed is the sum of the returned counts, and
\* new_species_added is the number of returned species that were absent
\* locally and whose enrichment succeeded.
C5_CompletedRun ==
    (RunOver /\ run_result = "completed") =>
        /\ last_detection_date = MaxLatest(species_stats_list, run_last)
        /\ stats.detections_processed = SumCounts(species_stats_list)
        /\ stats.new_species_added = Cardinality(AddedThisRun)

\* 3 detections over 2 species, one of them unseen
C5_Witness ==
    /\ RunOver
    /\ run_result = "completed"
    /\ Len(species_stats_list) = 2
    /\ Cardinality(EntryIds(species_stats_list) \cap StoredIds(birds_at_start)) = 1
    /\ stats.detections_processed = 3
    /\ stats.new_species_added = 1
    /\ last_detection_date > run_last
    /\ \E i \in 1..2 : species_stats_list[i].latest_detection = NoDate

\* the items of the topSpecies response whose detections request succeeded
DetailsOk(item) == item.species_id # NoId /\ item.details = "ok"
DetailsFailed(item) ==
    item.species_id # NoId /\ item.details \in {"request_error", "graphql_error"}
OkItems(top) == SelectSeq(top, DetailsOk)
RECURSIVE SumItemCounts(_)
SumItemCounts(items) ==
    IF items = <<>> THEN 0 ELSE Head(items).count + SumItemCounts(Tail(items))

\* C6: a failed detections request (request failure or GraphQL error) makes
\* get_species_detection_stats skip that species only: every other species
\* of the topSpecies response is returned, in order, and counted by the run.
C6_PerSpeciesIsolation ==
    (pc \in {"loop", "done"} /\ run_result \in {"running", "completed", "aborted", "write_failed"}) =>
        /\ Len(species_stats_list) = Len(OkItems(top_species_data))
        /\ \A i \in 1..Len(species_stats_list) :
              /\ species_stats_list[i].species_id = OkItems(top_species_data)[i].species_id
              /\ species_stats_list[i].count = OkItems(top_species_data)[i].count
              /\ species_stats_list[i].latest_detection = OkItems(top_species_data)[i].timestamp
        /\ (run_result \in {"completed", "write_failed"} =>
               stats.detections_processed = SumItemCounts(OkItems(top_species_data)))

C6_Witness ==
    /\ RunOver
    /\ run_result = "completed"
    /\ Len(top_species_data) = 2
    /\ DetailsFailed(top_species_data[1])
    /\ DetailsOk(top_species_data[2])
    /\ stats.detections_processed = top_species_data[2].count

\* the last loop iteration called add_bird_species and got None
StepEnrichFailed ==
    /\ pc \in {"loop", "done"}
    /\ step_log.invoked
    /\ ~step_log.ret

\* C7 as stated: if enrichment of an unseen species X fails during a run, no
\* Species row exists for X, X's count is added to detections_processed, X
\* is not counted in new_species_added, and the other species are counted.
C7_Claim ==
    /\ StepEnrichFailed =>
          /\ ~HasBird(birds, step_log.species_id)
          /\ stats.detections_processed = step_log.processed_before + step_log.count
          /\ stats.new_species_added = step_log.added_before
    /\ (RunOver /\ run_result = "completed") =>
          stats.detections_processed = SumCounts(species_stats_list)

\* C8 as stated: a species whose enrichment failed in one run is retried
\* (add_bird_species is invoked for it) when the next run processes it.
C8_Claim ==
    (pc \in {"loop", "done"} /\ step_log.species_id # NoId
        /\ step_log.status_before \in {"unresolved", "insert_failed", "failed_after_commit"})
    => step_log.invoked

\* C9 as stated: an identifier that could not be resolved to enrichment data
\* in one run is known afterwards: the next run does not enrich it again.
C9_Original ==
    (pc \in {"loop", "done"} /\ step_log.species_id # NoId
        /\ step_log.status_before = "unresolved")
    => ~step_log.invoked

\* C9 amended: an identifier that could not be resolved to enrichment data
\* in one run gets no row and stays unknown: the next run that processes it
\* finds it absent and calls add_bird_species for it again.
C9_UnresolvedIsRetried ==
    (pc \in {"loop", "done"} /\ step_log.species_id # NoId
        /\ step_log.status_before = "unresolved")
    => (~step_log.present_before /\ step_log.invoked)

C9_Witness ==
    /\ pc \in {"loop", "done"}
    /\ step_log.species_id # NoId
    /\ step_log.status_before = "unresolved"
    /\ step_log.invoked
    /\ step_log.ret

\* C10 as stated: add_bird_species for an id that is already stored returns
\* the existing record, issues no species or image request and leaves the
\* row unchanged, whether called directly or reached through the run (which
\* does not call it for a stored id).
C10_Claim ==
    /\ (call_log.species_id # NoId /\ call_log.present_before) =>
          /\ call_log.ret
          /\ call_log.species_requests = 0
          /\ call_log.image_requests = 0
          /\ birds = call_log.rows_before
    /\ (pc \in {"loop", "done"} /\ step_log.present_before) => ~step_log.invoked

\* ---------------------------------------------------------------- C11, C12
RowsOf(sid) == {b \in birds : b.species_id = sid}
BothReturned == \A c \in Callers : calls[c].pc = "returned"
SameId == \E sid \in Species : \A c \in Callers : calls[c].species_id = sid
\* the call failed for another reason than the primary key
Fault(c) == calls[c].failed_at # "none" /\ ~calls[c].lost

C12_Claim ==
    \A c \in Callers : (calls[c].pc = "returned" /\ calls[c].lost) => calls[c].ret

\* ---------------------------------------------------------------- C13, C14
InRun == pc \in {"loop", "done"}
StepInvoked == InRun /\ step_log.species_id # NoId /\ step_log.invoked
DirectCalled == call_log.species_id # NoId

\* a failed species request (exception or empty result) returns None and
\* the call stores nothing: with no other caller there is no row for the id
FailedFetchWritesNothing ==
    \A c \in Callers :
        (calls[c].pc = "returned" /\ calls[c].failed_at = "fetch") =>
            /\ ~calls[c].ret
            /\ ~calls[c].inserted
            /\ (\A d \in Callers \ {c} : calls[d].pc = "idle") =>
                   RowsOf(calls[c].species_id) = {}

\* C13 as stated: when the species request fails or yields no usable record,
\* add_bird_species returns None and no row for the id exists afterwards,
\* and only a complete, validated record is ever inserted (no stored row is
\* half-populated).
C13_Claim ==
    /\ FailedFetchWritesNothing
    /\ \A b \in birds : b.info \in CompleteInfo

\* C14: a failed download of the main image or of the thumbnail does not
\* fail the enrichment: the call returns the record, the row is stored with
\* common = FALSE, and the run counts the species in new_species_added.
C14_ImageFailureIsNotFailure ==
    /\ (StepInvoked /\ step_log.image_failed) =>
          /\ step_log.ret
          /\ \E b \in birds : b.species_id = step_log.species_id /\ ~b.common
          /\ stats.new_species_added = step_log.added_before + 1
          /\ step_log.species_id \in run_added
    /\ (DirectCalled /\ call_log.image_failed) =>
          /\ call_log.ret
          /\ \E b \in birds : b.species_id = call_log.species_id /\ ~b.common

C14_Witness ==
    /\ pc = "done"
    /\ run_result = "completed"
    /\ step_log.invoked
    /\ step_log.image_failed
    /\ step_log.ret
    /\ stats.new_species_added = step_log.added_before + 1

\* --------------------------------------------------------------------- C15
\* the greatest detection timestamp the remote data hold (NoDate: none)
RECURSIVE MaxRemoteTimestamp(_)
MaxRemoteTimestamp(top) ==
    IF top = <<>> THEN NoDate
    ELSE LET m == MaxRemoteTimestamp(Tail(top))
             t == Head(top).timestamp
         IN IF t > m THEN t ELSE m

\* a run that follows a completed or an interrupted run over the same data
IsRerun ==
    /\ rerun.runs >= 1
    /\ rerun.prev \in {"completed", "aborted", "top_failed", "write_failed"}
    /\ InRun

WriteBy(c) == racers.run[c].pc = "write" /\ racers'.run[c].pc = "done"

\* C16: two overlapping runs can lower the watermark (C16_Witness: both read
\* the same value and the later commit stores the older timestamp), and a
\* single run cannot: every step that lowers the stored value is the write
\* of a run that stores a value newer than the one it read while the stored
\* value is no longer the one it read, another run having committed since.
C16_LoweredOnlyByOverlap ==
    [][last_detection_date' < last_detection_date =>
          \E c \in Callers :
              /\ WriteBy(c)
              /\ last_detection_date' > racers.run[c].last
              /\ last_detection_date # racers.run[c].last]_vars

C16_Witness ==
    /\ racers.lowered
    /\ \A c \in Callers : racers.run[c].pc = "done"
    /\ racers.run["a"].last = racers.run["b"].last
    /\ \E c \in Callers : /\ racers.run[c].newest = last_detection_date
                           /\ \E d \in Callers : racers.run[d].newest > last_detection_date

\* ---------------------------------------------------------------- C17..C20
WeatherCalled == weather_log.lat # NoCoord

\* the call found a config that an earlier call had resolved
HadResolution ==
    /\ WeatherCalled
    /\ weather_log.existed
    /\ weather_log.before.last_lat # NoCoord
    /\ weather_log.before.last_lon # NoCoord

WithinTolerance ==
    /\ AbsDiff(weather_log.before.last_lat, weather_log.lat) <= Tolerance
    /\ AbsDiff(weather_log.before.last_lon, weather_log.lon) <= Tolerance

\* C17: a call with both coordinates within 0.01 degree of the resolved ones
\* makes no request and returns the stored config, every field unchanged.
C17_CachedWithinTolerance ==
    (HadResolution /\ WithinTolerance) =>
        /\ weather_log.point_lookups = 0
        /\ weather_log.station_searches = 0
        /\ weather_log.ret
        /\ weather_config = weather_log.before

C17_Witness ==
    /\ HadResolution
    /\ WithinTolerance
    /\ AbsDiff(weather_log.before.last_lat, weather_log.lat) = Tolerance
    /\ weather_log.before.last_lon # weather_log.lon
    /\ weather_log.ret
    /\ weather_config = weather_log.before

\* C18 as stated: a call more than 0.01 degree away from the resolved
\* coordinates makes exactly one point lookup and exactly one station search
\* and sets last_lat/last_lon to the requested values.
C18_Original ==
    (HadResolution /\ ~WithinTolerance) =>
        /\ weather_log.point_lookups = 1
        /\ weather_log.station_searches = 1
        /\ weather_config.last_lat = weather_log.lat
        /\ weather_config.last_lon = weather_log.lon

\* C18 amended: such a call makes exactly one point lookup; it makes exactly
\* one station search when the lookup succeeds and names a stations listing
\* and none otherwise; when it returns a config last_lat/last_lon are the
\* requested values, and when it returns None (lookup failed, search raised,
\* commit failed) the stored config is as before.
C18_OneLookupThenStamp ==
    (HadResolution /\ ~WithinTolerance) =>
        /\ weather_log.point_lookups = 1
        /\ weather_log.station_searches =
              (IF weather_log.outcome.point = "ok" THEN 1 ELSE 0)
        /\ weather_log.ret =>
              /\ weather_config.last_lat = weather_log.lat
              /\ weather_config.last_lon = weather_log.lon
        /\ ~weather_log.ret => weather_config = weather_log.before

C18_Witness ==
    /\ HadResolution
    /\ ~WithinTolerance
    /\ weather_log.ret
    /\ weather_log.point_lookups = 1
    /\ weather_log.station_searches = 1
    /\ weather_config.last_lat = weather_log.lat
    /\ weather_config.last_lon = weather_log.lon
    /\ weather_config # weather_log.before

\* C19: when the point lookup of a required re-resolution fails, None is
\* returned, every field of the existing config keeps its value and no
\* station search is made.
C19_FailedLookupKeepsConfig ==
    (WeatherCalled /\ weather_log.existed /\ weather_log.needed
        /\ weather_log.outcome.point = "fail") =>
        /\ ~weather_log.ret
        /\ weather_config = weather_log.before
        /\ weather_log.station_searches = 0

C19_Witness ==
    /\ HadResolution
    /\ weather_log.needed
    /\ weather_log.outcome.point = "fail"
    /\ weather_log.before.conditions_url # NoValue
    /\ ~weather_log.ret
    /\ weather_config = weather_log.before

\* C20 as stated: when the point lookup succeeds and no station is found,
\* the config afterwards holds the new forecast url and no conditions_url,
\* whether or not an earlier resolution had set one.
C20_Claim ==
    (WeatherCalled /\ weather_log.needed /\ weather_log.ret
        /\ weather_log.outcome.station = "none") =>
        /\ weather_config.forecast_url =
              ForecastUrl(weather_log.lat, weather_log.lon, weather_log.outcome)
        /\ weather_config.conditions_url = NoValue

\* ------------------------------------------------------------------ C27
DateRows(rows) == RowsWithKey(rows, DateKey)
Initialized == meta_log.op = "initialize"

\* C27: initialize_database returns True only when the database file did
\* not exist, and then the stored watermark is now minus historical_days,
\* whatever the station lookup did; when the file exists it returns False
\* and the metadata rows, the watermark among them, are as before.
C27_FirstRunOnly ==
    Initialized =>
        /\ meta_log.ret =>
              /\ ~meta_log.existed
              /\ db_file
              /\ GetLastDetectionDate(metadata) = meta_log.now - meta_log.hist
        /\ meta_log.existed =>
              /\ ~meta_log.ret
              /\ metadata = meta_log.rows_before
              /\ last_detection_date = GetLastDetectionDate(meta_log.rows_before)

\* a first-run initialization whose station lookup stored no coordinates,
\* and a later call that found the file and a watermark
C27_Witness ==
    /\ Initialized /\ meta_log.ret /\ meta_log.lookups = 1
    /\ GetStationCoordinates(metadata) = NoCoords
C27_WitnessExisting ==
    /\ Initialized /\ meta_log.existed
    /\ GetLastDetectionDate(metadata) # NoDate
    /\ GetLastDetectionDate(metadata) # meta_log.now - meta_log.hist

\* ------------------------------------------------------------------ C28
\* C28: once a set_last_detection_date call has been committed there is
\* exactly one metadata row with key last_detection_date, and after a
\* committed call get_last_detection_date returns that call's value; before
\* any call there is no such row and get_last_detection_date returns None.
C28_LastValueOneRow ==
    /\ meta_log.date_set => Cardinality(DateRows(metadata)) = 1
    /\ (meta_log.op = "set_date" /\ ~meta_log.raised) =>
          /\ GetLastDetectionDate(metadata) = meta_log.date
          /\ last_detection_date = meta_log.date
    /\ ~meta_log.date_set =>
          /\ DateRows(metadata) = {}
          /\ GetLastDetectionDate(metadata) = NoDate

\* a call that replaced a different stored value
C28_Witness ==
    /\ meta_log.op = "set_date" /\ ~meta_log.raised
    /\ DateRows(meta_log.rows_before) # {}
    /\ GetLastDetectionDate(meta_log.rows_before) # meta_log.date

\* ------------------------------------------------------------- C21, C22
\* the complete set of the refresh under way (or of the last one)
NewForecast == ForecastRows(refresh.gen, refresh.periods)
OneGeneration(rows) == \A r1 \in rows, r2 \in rows : r1.gen = r2.gen

\* C21: at every point during and after update_forecast the committed
\* Forecast rows, which is what a reader gets, are the complete set from
\* before the call or the complete new set: never rows of two refreshes,
\* never a part of a set, and never no rows where there were rows before.
C21_OldOrNewSet ==
    refresh.gen > 0 =>
        /\ \/ forecasts = refresh.old
           \/ refresh.periods > 0 /\ forecasts = NewForecast
        /\ OneGeneration(forecasts)
        /\ refresh.old # {} => forecasts # {}

\* a reader while the second refresh has deleted and begun to insert
C21_Witness ==
    /\ Refreshing("insert")
    /\ refresh.old # {} /\ refresh.tx.rows # {} /\ refresh.tx.rows # NewForecast
    /\ forecasts = refresh.old

C29_StoredCoordinates ==
    /\ (meta_log.op = "update_coords"
           /\ GetStationCoordinates(meta_log.rows_before) # NoCoords) =>
          /\ meta_log.ret_coords = GetStationCoordinates(meta_log.rows_before)
          /\ meta_log.lookups = 0
          /\ metadata = meta_log.rows_before
    /\ (meta_log.op = "set_coords" /\ ~meta_log.raised) =>
          GetStationCoordinates(metadata) = <<meta_log.lat, meta_log.lon>>
C29_WeatherOnlyReads == [][refresh' # refresh => metadata' = metadata]_vars
Eligible(listing) ==
    {i \in 1..Len(listing) : listing[i].geometry = "point" /\ listing[i].id # NoValue}
Nearest(listing, lat) ==
    {i \in Eligible(listing) :
        \A j \in Eligible(listing) :
            Distance(lat, listing[i].lat) <= Distance(lat, listing[j].lat)}
FirstOf(S) == CHOOSE i \in S : \A j \in S : i <= j
Answered == station_search.pc = "answered"

\* C23: find_closest_station returns the first of the entries at minimal
\* distance among those that have coordinates and an identifier; entries
\* lacking either are skipped, so with no such entry nothing is returned.
C23_Claim ==
    Answered =>
        LET listing == station_search.listing
            near == Nearest(listing, station_search.lat)
        IN IF near = {}
           THEN station_search.result = NoResult
           ELSE station_search.result = [ret |-> "station", at |-> FirstOf(near)]

\* what does hold: the answer is the first nearest entry among those with
\* an identifier and coordinates away from 0, unless an entry with a null
\* geometry ended the search with an exception
Usable(listing) == {i \in Eligible(listing) : listing[i].lat # 0}
C23_UsableEntries ==
    (Answered /\ station_search.result.ret = "station") =>
        LET listing == station_search.listing
            i == station_search.result.at
        IN /\ i \in Usable(listing)
           /\ \A j \in Usable(listing) :
                 \/ Distance(station_search.lat, listing[i].lat)
                       < Distance(station_search.lat, listing[j].lat)
                 \/ /\ Distance(station_search.lat, listing[i].lat)
                          = Distance(station_search.lat, listing[j].lat)
                    /\ i <= j

\* ------------------------------------------------------------------ C24
\* C24: whatever is raised inside update_database or update_weather_data
\* (a configuration error, a transport error, an error payload, a storage
\* error, a malformed answer, a failing rollback), the function returns
\* its dictionary and nothing reaches the caller.
C24_NeverRaises == raise_log.result # "none" => raise_log.result = "returned"

\* the commit of the forecast failed, the rollback in update_forecast's
\* handler failed as well, and update_weather_data still returned
C24_Witness ==
    /\ raise_log.result = "returned"
    /\ raise_log.site = "forecast_commit" /\ raise_log.rollback_fails
C24_WitnessConfig ==
    /\ raise_log.result = "returned"
    /\ raise_log.site = "validate_config" /\ raise_log.kind = "ValueError"

\* ------------------------------------------------------------------ C25
\* C25: with a missing or incomplete BirdWeather configuration a sync run
\* on a database with a watermark makes no request (none for the
\* statistics, no loop iteration and so none for a species or an image),
\* returns zero counts, creates no Species row and leaves the watermark as
\* it was.
C25_ConfigErrorDoesNothing ==
    (config # CompleteConfig /\ pc = "done") =>
        /\ run_result = "config_error"
        /\ stats_requests = 0
        /\ step_log = NoStep /\ call_log = NoCall
        /\ stats = ZeroStats
        /\ birds = birds_at_start
        /\ last_detection_date = run_last

\* a run without a station id has ended
C25_Witness ==
    /\ config = "no_station_id" /\ pc = "done" /\ run_result = "config_error"
    /\ run_last # NoDate

\* ------------------------------------------------------------------ C26
\* what the weather side keeps: the station coordinates, the
\* LocationWeatherConfig row, the CurrentConditions and Forecast rows; and
\* what the sync keeps: the watermark and the Species rows
WeatherStore == <<GetStationCoordinates(metadata), weather_config, conditions, forecasts>>
SyncStore == <<last_detection_date, birds>>

\* C26: no step of update_database changes the station coordinates, the
\* LocationWeatherConfig row or the CurrentConditions and Forecast rows,
\* and no step of update_weather_data changes the watermark or a Species
\* row, in every interleaving of one sync run with one weather update.
C26_DisjointStores ==
    [][/\ run_locals' # run_locals => WeatherStore' = WeatherStore
       /\ refresh' # refresh => SyncStore' = SyncStore]_vars

\* both are under way: the sync has stored a species, the weather update
\* has resolved its configuration and is inserting forecast rows
C26_Witness ==
    /\ pc = "loop" /\ birds # {}
    /\ Refreshing("insert") /\ weather_config.stored /\ refresh.tx.rows # {}

\* ------------------------------------------------------------------ C30
\* C30: once the caller has cancelled, the run processes no further
\* species, stores no Species row and does not advance the watermark.
C30_Claim ==
    [][cancel => /\ idx' = idx
                 /\ birds' = birds
                 /\ last_detection_date' = last_detection_date]_vars


\* ------------------------------------------------------------------ C31
ConditionsCalled == cond_log.called

\* C31: CurrentConditions is append-only: a successful
\* update_current_conditions adds exactly one row and leaves every existing
\* row as it was; a failing call (no conditions url, failed fetch, no
\* timestamp, storage error) adds no row.
C31_AppendOnly ==
    [][cond_log' # cond_log =>
          IF cond_log'.ret
          THEN /\ conditions \subseteq conditions'
               /\ Cardinality(conditions') = Cardinality(conditions) + 1
          ELSE conditions' = conditions]_vars

C31_Witness ==
    /\ ConditionsCalled
    /\ cond_log.ret
    /\ cond_log.before # {}
    /\ cond_log.before \subseteq conditions
    /\ Cardinality(conditions) = Cardinality(cond_log.before) + 1

C31_WitnessStorageError ==
    /\ ConditionsCalled
    /\ ~cond_log.ret
    /\ cond_log.db = "commit_error"
    /\ cond_log.before # {}
    /\ conditions = cond_log.before

\* ------------------------------------------------------------------ C32
GotConditions == ConditionsCalled /\ cond_log.data.kind = "data"

\* C32: the feels-like temperature of get_current_conditions is the wind
\* chill when that is not null, otherwise the heat index when that is not
\* null, otherwise the temperature (null when the temperature is null).
C32_FeelsLikeOrder ==
    GotConditions =>
        LET props == cond_log.answer.props
            data == cond_log.data
        IN /\ props.windChill # NoNumber =>
                 data.feels_like = CELSIUS_TO_FAHRENHEIT(props.windChill)
           /\ (props.windChill = NoNumber /\ props.heatIndex # NoNumber) =>
                 data.feels_like = CELSIUS_TO_FAHRENHEIT(props.heatIndex)
           /\ (props.windChill = NoNumber /\ props.heatIndex = NoNumber) =>
                 data.feels_like = data.temperature

C32_Witness ==
    /\ GotConditions
    /\ cond_log.answer.props.windChill # NoNumber
    /\ cond_log.answer.props.heatIndex # NoNumber
    /\ cond_log.answer.props.temperature # NoNumber
    /\ cond_log.data.feels_like = Dec(32, 0)
    /\ cond_log.data.temperature = Dec(68, 0)

C32_WitnessNull ==
    /\ GotConditions
    /\ cond_log.answer.props.windChill = NoNumber
    /\ cond_log.answer.props.heatIndex = NoNumber
    /\ cond_log.data.feels_like = NoNumber


\* ------------------------------------------------------------------ C33
Converted(fn, x) ==
    conversion.done /\ conversion.fn = fn /\ conversion.input = x

\* x is m * 10^e when rounded to the digit 10^e
About(x, m, e) ==
    IF x.e >= e THEN x.m * Pow10(x.e - e) = m
    ELSE LET f == Pow10(e - x.e) IN 2 * AbsDiff(x.m, m * f) <= f

C33_InchesRounded ==
    /\ Converted("CELSIUS_TO_FAHRENHEIT", Dec(0, 0)) => conversion.output = Dec(32, 0)
    /\ Converted("KMH_TO_MPH", Dec(1, 2)) => About(conversion.output, 6214, -2)
    /\ Converted("PASCAL_TO_HPA", Dec(1, 5)) => conversion.output = Dec(1, 3)
    /\ Converted("METERS_TO_MILES", Dec(1, 3)) => About(conversion.output, 621, -3)
    /\ Converted("MM_TO_INCHES", Dec(254, -1)) =>
          /\ conversion.output = Dec(100000054, -8)
          /\ About(conversion.output, 10, -1)
    /\ (conversion.done /\ conversion.input = NoNumber) =>
          conversion.output = NoNumber


\* ------------------------------------------------------------------ C34
\* the run has passed its period to get_species_detection_stats
RequestIssued == period.built /\ pc \in {"fetch", "loop", "done"}

\* the first instant of the window of period.count days that ends now
WindowStart == period.now - period.count * TicksPerDay

C35_Claim == RequestIssued => period.count >= 1


\* ------------------------------------------------------------------ C36
\* C36 as stated: add_bird_species returns None exactly when the call
\* committed no Species row, and so at the end of a single run
\* new_species_added is the number of rows the run created.
C36_Claim ==
    /\ DirectCalled => (~call_log.ret <=> birds = call_log.rows_before)
    /\ pc = "done" =>
          stats.new_species_added = Cardinality(birds \ birds_at_start)


\* ------------------------------------------------------------------ C37
\* C37: after every get_or_update_weather_config(lat, lon) that returns a
\* config, the stored last_lat/last_lon are within 0.01 degree of lat/lon in
\* both axes, and they are the coordinates the cached metadata was resolved
\* for: moves below the tolerance do not add up.
C37_TrackedNearRequested ==
    (WeatherCalled /\ weather_log.ret) =>
        /\ weather_config.last_lat # NoCoord
        /\ weather_config.last_lon # NoCoord
        /\ AbsDiff(weather_config.last_lat, weather_log.lat) <= Tolerance
        /\ AbsDiff(weather_config.last_lon, weather_log.lon) <= Tolerance
        /\ weather_config.wfo =
              PointData(weather_config.last_lat, weather_config.last_lon)

\* a second small move in the same direction: the location is resolved anew
C37_Witness ==
    /\ HadResolution
    /\ weather_log.ret
    /\ weather_log.before.last_lat + Tolerance < weather_log.lat
    /\ weather_log.before.wfo # weather_config.wfo
    /\ weather_config.last_lat = weather_log.lat
    /\ weather_log.point_lookups = 1

C37_WitnessSmallMove ==
    /\ HadResolution
    /\ weather_log.ret
    /\ weather_log.point_lookups = 0
    /\ weather_config.last_lat + Tolerance = weather_log.lat
    /\ weather_config.wfo =
          PointData(weather_config.last_lat, weather_config.last_lon)


\* ------------------------------------------------------------------ C38
\* the stored config is resolved but lacks the station's conditions_url or
\* the forecast_url
Degraded(cfg) ==
    /\ cfg.last_lat # NoCoord /\ cfg.last_lon # NoCoord
    /\ (cfg.conditions_url = NoValue \/ cfg.forecast_url = NoPoint)

\* the coordinates of the update under way are within 0.01 degree of the
\* resolved ones
NearResolved ==
    /\ AbsDiff(weather_config.last_lat, refresh.lat) <= Tolerance
    /\ AbsDiff(weather_config.last_lon, refresh.lon) <= Tolerance

C38_NotRepaired ==
    (Refreshing("config") /\ Degraded(weather_config) /\ NearResolved) =>
        /\ weather_config' = weather_config
        /\ refresh'.lookups = 0
        /\ refresh'.pc = "conditions"

C38_KeepsFailing ==
    /\ (refresh.pc \in {"forecast", "delete", "insert", "finish"}
            /\ weather_config.conditions_url = NoValue) =>
          ~refresh.status.current_conditions_updated
    /\ (refresh.pc = "finish" /\ weather_config.forecast_url = NoPoint) =>
          /\ ~refresh.status.forecast_updated
          /\ refresh.forecast = "no_url"

\* C38: a config stored in a degraded state (resolved, but without
\* conditions_url or forecast_url) is not repaired by
\* get_or_update_weather_config at coordinates within tolerance: such a call
\* makes no request and leaves the config as it is, and update_current_conditions
\* (update_forecast) returns False for as long as the url is missing.
C38_Claim == []C38_KeepsFailing /\ [][C38_NotRepaired]_vars

\* the second update, after a move within tolerance: no request, still no
\* station, no conditions row
C38_Witness ==
    /\ refresh.gen = 2
    /\ Refreshing("finish")
    /\ refresh.lookups = 0
    /\ Degraded(weather_config)
    /\ weather_config.conditions_url = NoValue
    /\ <<refresh.lat, refresh.lon>> # <<weather_config.last_lat, weather_config.last_lon>>
    /\ NearResolved
    /\ ~refresh.status.current_conditions_updated
    /\ conditions = {}

C38_WitnessForecast ==
    /\ refresh.gen = 2
    /\ Refreshing("finish")
    /\ refresh.lookups = 0
    /\ weather_config.forecast_url = NoPoint
    /\ weather_config.conditions_url # NoValue
    /\ <<refresh.lat, refresh.lon>> # <<weather_config.last_lat, weather_config.last_lon>>
    /\ refresh.forecast = "no_url"
    /\ forecasts = {}


\* ------------------------------------------------------------------ C39
\* update_weather_data is about to return its status
StatusReady == Refreshing("done")

EarlyReturn == refresh.status.message \in {"no_coordinates", "config_failed"}

C39_Status ==
    StatusReady =>
        /\ refresh.status.success =
              (refresh.status.current_conditions_updated
                  \/ refresh.status.forecast_updated)
        /\ refresh.status.message \in {"updated", "failed"} =>
              refresh.forecast # "none"
        /\ EarlyReturn =>
              /\ ~refresh.status.success
              /\ ~refresh.status.current_conditions_updated
              /\ ~refresh.status.forecast_updated
              /\ refresh.forecast = "none"
              /\ forecasts = refresh.old

C39_EarlyReturnWritesNothing ==
    refresh.pc \in {"idle", "config"} =>
        /\ conditions' = conditions
        /\ forecasts' = forecasts
        /\ refresh'.pc = "done" =>
              refresh'.status = [NoStatus EXCEPT !.message = refresh'.status.message]

C39_WitnessConditionsOnly ==
    /\ StatusReady
    /\ refresh.status.current_conditions_updated
    /\ ~refresh.status.forecast_updated
    /\ refresh.status.success
    /\ refresh.forecast \notin {"none", "committed"}

C39_WitnessNoConfig ==
    /\ StatusReady
    /\ refresh.status.message = "config_failed"
    /\ refresh.gen = 2
    /\ conditions # {}
    /\ forecasts # {}

====
